---- MODULE Spec2Model ----
(***************************************************************************)
(* captains-log: the markup conversion and terminal-rendering engine.      *)
(*                                                                         *)
(*   render_markdown          src/cli/formatting.rs   (Terminal Renderer)  *)
(*   convert_markdown_to_org  src/export/mod.rs       (Outline Emitter)    *)
(*   convert_org_to_markdown  src/import/mod.rs       (Outline-to-Markup)  *)
(*                                                                         *)
(* Text is modelled character by character: a string is a sequence of      *)
(* one-character strings.  Four characters TLA+ cannot spell in a string   *)
(* literal are named: ESC is \x1b, BAR is the quote glyph U+2502, BULLET   *)
(* is U+2022 and TICK is the backtick.                                     *)
(***************************************************************************)
EXTENDS Integers, Sequences, FiniteSets, TLC

VARIABLES
    \* the tokenizer (pulldown_cmark::Parser) feeding both event loops
    events,             \* the events handed out so far
    open,               \* the tags started and not yet ended, innermost last
    done,               \* the parser is exhausted and both loops returned
    \* process-wide settings and arguments
    color,              \* colored::control override (src/main.rs:104-106)
    base_level,         \* convert_markdown_to_org's base_level argument
    \* render_markdown's locals
    is_italic, is_bold, is_strikethrough, in_code_block, list_depth,
    in_blockquote, result,
    emitted,            \* what the last event appended to result
    \* convert_markdown_to_org's locals
    org_list_depth, org_in_blockquote, org_result,
    org_emitted,        \* what the last event appended to org_result
    \* convert_org_to_markdown's locals
    lines,              \* the lines of `org` the loop has taken so far
    in_src_block, in_quote, md_result,
    chunks,             \* chunks[i]: what line i appended to md_result
    md_done,            \* the loop is over and the function returned
    md,                 \* the returned string, result.trim()
    \* wrap_text, applied to a text and then to its own output
    w_text,             \* the text argument of the first call
    w_width,            \* the width argument of both calls
    w_out,              \* the strings returned so far, one per call
    \* convert_org_links, step by step
    lk_text,            \* the text argument
    lk_result,          \* the local result
    lk_done,            \* the loop is left and result is returned
    \* parse_org_date_header, parse_entry_header and parse_frontmatter
    dh_str,             \* parse_org_date_header's argument
    dh_out,             \* what it returned, once it has
    eh_header,          \* parse_entry_header's argument
    eh_out,             \* what it returned, once it has
    fm_content,         \* parse_frontmatter's argument
    fm_yaml_ok,         \* serde_yaml accepts the metadata lines
    fm_out,             \* what it returned, once it has
    \* parse_org_journal
    jn_pc,              \* "idle", "loop" while the loop runs, "returned"
    jn_lines,           \* content.lines()
    filter_date,        \* the filter_date argument
    jn_i,               \* the loop's line index i
    current_date,       \* the date of the last date header, if it parsed
    entries,            \* the entries pushed so far
    entry_lines,        \* entry_lines[k]: index of the header of entries[k]
    exported,           \* the entries export_to_org wrote jn_lines from
    \* import_from_org and import_from_dayone
    st_pc,              \* "idle"; "org" or "dayone": the function called;
                        \* "loop"; "ok" or "err": what it returned
    st_parsed,          \* how many entries the parser returned
    st_handled,         \* how many of them the for loop has taken
    stats               \* the ImportStats value

tokVars    == <<events, open, done, color, base_level>>
renderVars == <<is_italic, is_bold, is_strikethrough, in_code_block,
                list_depth, in_blockquote, result, emitted>>
orgVars    == <<org_list_depth, org_in_blockquote, org_result, org_emitted>>
importVars == <<lines, in_src_block, in_quote, md_result, chunks, md_done, md>>
wrapVars   == <<w_text, w_width, w_out>>
linkVars   == <<lk_text, lk_result, lk_done>>
parseVars  == <<dh_str, dh_out, eh_header, eh_out, fm_content, fm_yaml_ok,
                fm_out>>
journalVars == <<jn_pc, jn_lines, filter_date, jn_i, current_date, entries,
                 entry_lines, exported>>
statsVars  == <<st_pc, st_parsed, st_handled, stats>>
restVars   == <<parseVars, journalVars, statsVars>>
vars       == <<tokVars, renderVars, orgVars, importVars, wrapVars, linkVars,
                restVars>>

(***************************************************************************)
(* Bounds of the model.                                                    *)
(***************************************************************************)
MaxEvents == 5      \* events of one markup document
MaxDepth  == 3      \* tags open at once
MaxLines  == 3      \* lines of one outline document
MaxListEvents == 5  \* events of one list document
MaxTextLen == 4     \* characters of a text handed to wrap_text
MaxWidth  == 3      \* widths handed to wrap_text: 1..MaxWidth
MaxPieces == 6      \* pieces of a line handed to convert_org_links

(***************************************************************************)
(* Characters and strings.                                                 *)
(***************************************************************************)
ESC    == "ESC"
BAR    == "BAR"
BULLET == "BULLET"
TICK   == "TICK"
NL     == "\n"
SP     == " "

RECURSIVE Repeat(_, _)
\* str::repeat
Repeat(s, n) == IF n <= 0 THEN <<>> ELSE s \o Repeat(s, n - 1)

RECURSIVE Flatten(_)
Flatten(ss) == IF ss = <<>> THEN <<>> ELSE Head(ss) \o Flatten(Tail(ss))

RECURSIVE Join(_, _)
\* [String]::join
Join(ss, sep) ==
    IF ss = <<>> THEN <<>>
    ELSE IF Len(ss) = 1 THEN ss[1]
    ELSE ss[1] \o sep \o Join(Tail(ss), sep)

\* The least index >= from at which pat occurs in s, 0 when there is none
\* (str::find on the slice s[from..]).
FindFrom(s, pat, from) ==
    LET hits == {i \in from..(Len(s) - Len(pat) + 1) :
                    SubSeq(s, i, i + Len(pat) - 1) = pat}
    IN  IF hits = {} THEN 0 ELSE CHOOSE i \in hits : \A j \in hits : i <= j

Contains(s, pat) == FindFrom(s, pat, 1) # 0

StartsWith(s, pat) == Len(s) >= Len(pat) /\ SubSeq(s, 1, Len(pat)) = pat

\* The start indices of the occurrences of pat in s.
Occurrences(s, pat) ==
    {i \in 1..(Len(s) - Len(pat) + 1) : SubSeq(s, i, i + Len(pat) - 1) = pat}

RECURSIVE Lines(_)
\* str::lines: split at "\n", no empty last line.
Lines(s) ==
    IF s = <<>> THEN <<>>
    ELSE LET i == FindFrom(s, <<NL>>, 1)
         IN  IF i = 0 THEN <<s>>
             ELSE <<SubSeq(s, 1, i - 1)>> \o Lines(SubSeq(s, i + 1, Len(s)))

UncheckedSub(a, b) == a - b
\* usize::saturating_sub
SaturatingSub(a, b) == IF a >= b THEN a - b ELSE 0

(***************************************************************************)
(* colored: a styled string is the SGR sequence of its style, the text and *)
(* the reset sequence; with colouring switched off, or with no style at    *)
(* all, it is the text alone.                                              *)
(***************************************************************************)
BrightGreen    == <<"9", "2">>
BrightYellow   == <<"9", "3">>
BrightBlack    == <<"9", "0">>
BoldBrightBlue == <<"1", ";", "9", "4">>
SgrReset       == <<ESC, "[", "0", "m">>

Sgr(code) == <<ESC, "[">> \o code \o <<"m">>

ColoredAlways(code, s) ==
    IF color THEN Sgr(code) \o s \o SgrReset ELSE s
Colored(code, s) ==
    IF color /\ code # <<>> THEN Sgr(code) \o s \o SgrReset ELSE s

\* normal(), then bold(), italic(), strikethrough() as the flags say
TextStyle ==
    Join(SelectSeq(<< IF is_bold THEN <<"1">> ELSE <<>>,
                      IF is_italic THEN <<"3">> ELSE <<>>,
                      IF is_strikethrough THEN <<"9">> ELSE <<>> >>,
                   LAMBDA c : c # <<>>),
         <<";">>)

(***************************************************************************)
(* OSC 8 hyperlinks.                                                       *)
(***************************************************************************)
OSC8_LINK_PREFIX == <<ESC, "]", "8", ";", ";">>
ST               == <<ESC, "\\">>
OSC8_LINK_END    == <<ESC, "]", "8", ";", ";", ESC, "\\">>

hyperlink_start(link_url) == OSC8_LINK_PREFIX \o link_url \o ST

hyperlink_end_unterminated == OSC8_LINK_PREFIX
hyperlink_end == OSC8_LINK_END

(***************************************************************************)
(* The tokenizer.  pulldown_cmark hands out a well-formed event sequence:  *)
(* every Start has its End, properly nested, blocks hold blocks or inline  *)
(* content, a list holds items, a code block holds text, and no link       *)
(* stands inside a link.                                                   *)
(***************************************************************************)
Tag(kind, level, arg, fenced) ==
    [kind |-> kind, level |-> level, arg |-> arg, fenced |-> fenced]

NoTag == Tag("None", 0, <<>>, FALSE)

HeadingLevels == 1..6
Urls          == {<<>>, <<"u">>}
Langs         == {<<"r", "s">>}
ParaTexts     == {<<"a">>, <<"b", "c">>}
CodeTexts     == {<<"x", NL, "*", "y", NL>>}
SpanTexts     == {<<"c">>}
BaseLevels    == {0, 1}

InlineKinds == {"Emphasis", "Strong", "Strikethrough", "Link", "Image"}

BlockTags ==
    {Tag("Paragraph", 0, <<>>, FALSE), Tag("List", 0, <<>>, FALSE),
     Tag("BlockQuote", 0, <<>>, FALSE), Tag("CodeBlock", 0, <<>>, FALSE)}
    \cup {Tag("Heading", l, <<>>, FALSE) : l \in HeadingLevels}
    \cup {Tag("CodeBlock", 0, lang, TRUE) : lang \in Langs}

ItemTag == Tag("Item", 0, <<>>, FALSE)

InlineTags ==
    {Tag(k, 0, <<>>, FALSE) : k \in {"Emphasis", "Strong", "Strikethrough"}}
    \cup {Tag("Link", 0, u, FALSE) : u \in Urls}
    \cup {Tag("Image", 0, <<"u">>, FALSE)}

Tags == BlockTags \cup {ItemTag} \cup InlineTags

Event(type, tag, text) == [type |-> type, tag |-> tag, text |-> text]

Top  == IF open = <<>> THEN NoTag ELSE open[Len(open)]
Last == IF events = <<>> THEN Event("None", NoTag, <<>>)
        ELSE events[Len(events)]

IsOpen(kind) == \E i \in 1..Len(open) : open[i].kind = kind

BlockCtx  == open = <<>> \/ Top.kind \in {"BlockQuote", "Item"}
InlineCtx == Top.kind \in ({"Paragraph", "Heading", "Item"} \cup InlineKinds)
AfterBreak == Last.type \in {"SoftBreak", "HardBreak"}

More == ~done /\ Len(events) < MaxEvents

CanStart(tag) ==
    /\ More
    /\ Len(open) < MaxDepth
    /\ \/ tag \in BlockTags /\ BlockCtx /\ ~AfterBreak
       \/ tag = ItemTag /\ Top.kind = "List"
       \/ tag \in InlineTags /\ InlineCtx
          /\ (tag.kind = "Link" => ~IsOpen("Link"))

\* A paragraph, a span of emphasis and a list are never empty, and no
\* break ends its paragraph.
CanEnd ==
    /\ More
    /\ open # <<>>
    /\ ~AfterBreak
    /\ Top.kind \in {"Paragraph", "Emphasis", "Strong", "Strikethrough", "List"}
          => Last.type # "Start"

CanText(text) ==
    /\ More
    /\ \/ InlineCtx /\ text \in ParaTexts
       \/ Top.kind = "CodeBlock" /\ text \in CodeTexts

CanCode(text) == More /\ InlineCtx /\ text \in SpanTexts

\* A break stands between two pieces of inline content, never in a heading.
CanBreak ==
    /\ More
    /\ InlineCtx
    /\ ~IsOpen("Heading")
    /\ \/ Last.type \in {"Text", "Code"}
       \/ Last.type = "End" /\ Last.tag.kind \in InlineKinds

\* Events neither loop has an arm for.
OtherKinds == {"Rule", "InlineHtml"}
CanOther(kind) ==
    /\ More
    /\ \/ kind = "Rule" /\ BlockCtx /\ ~AfterBreak
       \/ kind = "InlineHtml" /\ InlineCtx

Take(ev) == events' = Append(events, ev)

(***************************************************************************)
(* render_markdown: one arm per event.                                     *)
(***************************************************************************)
Emit(s) == result' = result \o s /\ emitted' = s

HeadingPrefix(level) == Repeat(<<"#">>, level) \o <<SP>>

Fence == <<TICK, TICK, TICK>>

RenderStartOutput(tag) ==
    CASE tag.kind = "Heading"   -> Colored(BoldBrightBlue, HeadingPrefix(tag.level))
      [] tag.kind = "List"      -> <<NL>>
      [] tag.kind = "Item"      ->
            Colored(BrightYellow,
                    Repeat(<<SP, SP>>, SaturatingSub(list_depth, 1))
                        \o <<BULLET, SP>>)
      [] tag.kind = "CodeBlock" -> Colored(BrightGreen, Fence) \o <<NL>>
      [] tag.kind = "Link"      -> <<"[">> \o hyperlink_start(tag.arg)
      [] OTHER                  -> <<>>

\* A flag after Start(tag): set by the tag of its kind.
FlagAfterStart(flag, kind, tag) == IF tag.kind = kind THEN TRUE ELSE flag

FlagKeptAtEnd(flag, kind, tag) == flag
\* A flag after End(tag): cleared by the tag of its kind.
FlagAfterEnd(flag, kind, tag) == IF tag.kind = kind THEN FALSE ELSE flag

RenderStart(tag) ==
    /\ is_italic'        = FlagAfterStart(is_italic, "Emphasis", tag)
    /\ is_bold'          = FlagAfterStart(is_bold, "Strong", tag)
    /\ is_strikethrough' = FlagAfterStart(is_strikethrough, "Strikethrough", tag)
    /\ in_blockquote'    = FlagAfterStart(in_blockquote, "BlockQuote", tag)
    /\ in_code_block'    = FlagAfterStart(in_code_block, "CodeBlock", tag)
    /\ list_depth'       = IF tag.kind = "List" THEN list_depth + 1 ELSE list_depth
    /\ Emit(RenderStartOutput(tag))

RenderEndOutput(tag) ==
    CASE tag.kind = "Paragraph"  -> IF ~in_blockquote THEN <<NL, NL>> ELSE <<NL>>
      [] tag.kind = "Heading"    -> <<NL, NL>>
      [] tag.kind = "List"       -> <<NL>>
      [] tag.kind = "Item"       -> <<NL>>
      [] tag.kind = "BlockQuote" -> <<NL>>
      [] tag.kind = "CodeBlock"  -> Colored(BrightGreen, Fence) \o <<NL, NL>>
      [] tag.kind = "Link"       -> hyperlink_end \o <<"]">>
      [] OTHER                   -> <<>>

RenderEnd(tag) ==
    /\ is_italic'        = FlagAfterEnd(is_italic, "Emphasis", tag)
    /\ is_bold'          = FlagAfterEnd(is_bold, "Strong", tag)
    /\ is_strikethrough' = FlagAfterEnd(is_strikethrough, "Strikethrough", tag)
    /\ in_blockquote'    = FlagAfterEnd(in_blockquote, "BlockQuote", tag)
    /\ in_code_block'    = FlagAfterEnd(in_code_block, "CodeBlock", tag)
    /\ list_depth'       = IF tag.kind = "List"
                           THEN SaturatingSub(list_depth, 1) ELSE list_depth
    /\ Emit(RenderEndOutput(tag))

QuoteGlyph == <<BAR, SP>>

RenderTextOutputStyleFirst(text) ==
    IF is_bold \/ is_italic \/ is_strikethrough
    THEN Colored(TextStyle, text)
    ELSE IF in_code_block THEN Colored(BrightGreen, text)
    ELSE IF in_blockquote THEN
        LET ls == Lines(text)
        IN  Join([i \in 1..Len(ls) |-> Colored(BrightBlack, QuoteGlyph \o ls[i])],
                 <<NL>>)
    ELSE text
RenderTextOutput(text) ==
    IF in_code_block THEN Colored(BrightGreen, text)
    ELSE IF in_blockquote THEN
        LET ls == Lines(text)
        IN  Join([i \in 1..Len(ls) |-> Colored(BrightBlack, QuoteGlyph \o ls[i])],
                 <<NL>>)
    ELSE Colored(TextStyle, text)

RenderKeep ==
    UNCHANGED <<is_italic, is_bold, is_strikethrough, in_code_block,
                list_depth, in_blockquote>>

RenderText(text) == RenderKeep /\ Emit(RenderTextOutput(text))

RenderCode(text) ==
    RenderKeep /\ Emit(Colored(BrightGreen, <<TICK>> \o text \o <<TICK>>))

RenderSoftBreakSpace == RenderKeep /\ Emit(<<SP>>)
RenderSoftBreak == RenderKeep /\ Emit(IF in_blockquote THEN <<NL>> ELSE <<SP>>)

RenderHardBreak == RenderKeep /\ Emit(<<NL>>)

RenderOtherNewline == RenderKeep /\ Emit(<<NL>>)
RenderOther == RenderKeep /\ Emit(<<>>)

(***************************************************************************)
(* convert_markdown_to_org: one arm per event.                             *)
(***************************************************************************)
OrgEmit(s) == org_result' = org_result \o s /\ org_emitted' = s

BEGIN_QUOTE == <<"#", "+", "B", "E", "G", "I", "N", "_", "Q", "U", "O", "T", "E">>
END_QUOTE   == <<"#", "+", "E", "N", "D", "_", "Q", "U", "O", "T", "E">>
BEGIN_SRC   == <<"#", "+", "B", "E", "G", "I", "N", "_", "S", "R", "C">>
END_SRC     == <<"#", "+", "E", "N", "D", "_", "S", "R", "C">>

HeadingStarsOfLevel(level) == Repeat(<<"*">>, level)
\* "*".repeat((level as u32 + base_level) as usize)
HeadingStars(level) == Repeat(<<"*">>, level + base_level)

OrgStartOutput(tag) ==
    CASE tag.kind = "Emphasis"      -> <<"/">>
      [] tag.kind = "Strong"        -> <<"*">>
      [] tag.kind = "Strikethrough" -> <<"+">>
      [] tag.kind = "Heading"       -> HeadingStars(tag.level) \o <<SP>>
      [] tag.kind = "List"          -> <<NL>>
      [] tag.kind = "Item"          ->
            Repeat(<<SP, SP>>, SaturatingSub(org_list_depth, 1))
                \o <<BULLET, SP>>
      [] tag.kind = "BlockQuote"    -> BEGIN_QUOTE \o <<SP, NL>>
      [] tag.kind = "CodeBlock"     ->
            BEGIN_SRC \o <<SP>> \o (IF tag.fenced THEN tag.arg ELSE <<>>)
                \o <<NL>>
      [] tag.kind = "Link"          -> <<"[", "[">> \o tag.arg \o <<"]", "[">>
      [] OTHER                      -> <<>>

OrgStart(tag) ==
    /\ org_list_depth' =
          IF tag.kind = "List" THEN org_list_depth + 1 ELSE org_list_depth
    /\ org_in_blockquote' =
          IF tag.kind = "BlockQuote" THEN TRUE ELSE org_in_blockquote
    /\ OrgEmit(OrgStartOutput(tag))

OrgEndOutputMarkdownBold(tag) ==
    CASE tag.kind = "Paragraph"     ->
            IF ~org_in_blockquote THEN <<NL, NL>> ELSE <<NL>>
      [] tag.kind = "Emphasis"      -> <<"/">>
      [] tag.kind = "Strong"        -> <<"*", "*">>
      [] tag.kind = "Strikethrough" -> <<"+">>
      [] tag.kind = "Heading"       -> <<NL, NL>>
      [] tag.kind = "List"          -> <<NL>>
      [] tag.kind = "Item"          -> <<NL>>
      [] tag.kind = "BlockQuote"    -> END_QUOTE \o <<NL, NL>>
      [] tag.kind = "CodeBlock"     -> END_SRC \o <<NL, NL>>
      [] tag.kind = "Link"          -> <<"]", "]">>
      [] OTHER                      -> <<>>
OrgEndOutput(tag) ==
    CASE tag.kind = "Paragraph"     ->
            IF ~org_in_blockquote THEN <<NL, NL>> ELSE <<NL>>
      [] tag.kind = "Emphasis"      -> <<"/">>
      [] tag.kind = "Strong"        -> <<"*">>
      [] tag.kind = "Strikethrough" -> <<"+">>
      [] tag.kind = "Heading"       -> <<NL, NL>>
      [] tag.kind = "List"          -> <<NL>>
      [] tag.kind = "Item"          -> <<NL>>
      [] tag.kind = "BlockQuote"    -> END_QUOTE \o <<NL, NL>>
      [] tag.kind = "CodeBlock"     -> END_SRC \o <<NL, NL>>
      [] tag.kind = "Link"          -> <<"]", "]">>
      [] OTHER                      -> <<>>

\* TagEnd::BlockQuote writes the marker and leaves in_blockquote as it is.
OrgEnd(tag) ==
    /\ org_list_depth' =
          IF tag.kind = "List"
          THEN SaturatingSub(org_list_depth, 1) ELSE org_list_depth
    /\ UNCHANGED org_in_blockquote
    /\ OrgEmit(OrgEndOutput(tag))

OrgKeep == UNCHANGED <<org_list_depth, org_in_blockquote>>

OrgText(text) == OrgKeep /\ OrgEmit(text)

OrgCode(text) == OrgKeep /\ OrgEmit(<<"~">> \o text \o <<"~">>)

OrgSoftBreak ==
    OrgKeep /\ OrgEmit(IF org_in_blockquote THEN <<NL>> ELSE <<SP>>)

OrgHardBreak == OrgKeep /\ OrgEmit(<<NL>>)

OrgOther == OrgKeep /\ OrgEmit(<<>>)

(***************************************************************************)
(* The two event loops, run over the same event sequence.                  *)
(***************************************************************************)
ImportInit ==
    /\ lines = <<>>
    /\ in_src_block = FALSE
    /\ in_quote = FALSE
    /\ md_result = <<>>
    /\ chunks = <<>>
    /\ md_done = FALSE
    /\ md = <<>>

MarkupStart ==
    /\ events = <<>>
    /\ open = <<>>
    /\ done = FALSE
    /\ is_italic = FALSE
    /\ is_bold = FALSE
    /\ is_strikethrough = FALSE
    /\ in_code_block = FALSE
    /\ list_depth = 0
    /\ in_blockquote = FALSE
    /\ result = <<>>
    /\ emitted = <<>>
    /\ org_list_depth = 0
    /\ org_in_blockquote = FALSE
    /\ org_result = <<>>
    /\ org_emitted = <<>>

\* No call of wrap_text has been made.
WrapIdle ==
    /\ w_text = <<>>
    /\ w_width = 1
    /\ w_out = <<>>

\* No call of convert_org_links is being followed.
LinksIdle ==
    /\ lk_text = <<>>
    /\ lk_result = <<>>
    /\ lk_done = FALSE

\* None and Some(x) of an Option.
None == <<>>
Some(x) == <<x>>

\* A let binding: F applied to the value of x, x evaluated once.
Bind(x, F(_)) == CHOOSE r \in {F(v) : v \in {x}} : TRUE

\* No call of the three header parsers is being followed.
ParseIdle ==
    /\ dh_str = <<>>
    /\ dh_out = <<>>
    /\ eh_header = <<>>
    /\ eh_out = <<>>
    /\ fm_content = <<>>
    /\ fm_yaml_ok = TRUE
    /\ fm_out = <<>>

\* No call of parse_org_journal is being followed.
JournalIdle ==
    /\ jn_pc = "idle"
    /\ jn_lines = <<>>
    /\ filter_date = None
    /\ jn_i = 0
    /\ current_date = None
    /\ entries = <<>>
    /\ entry_lines = <<>>
    /\ exported = <<>>

\* No import is running.
StatsIdle ==
    /\ st_pc = "idle"
    /\ st_parsed = 0
    /\ st_handled = 0
    /\ stats = [total |-> 0, imported |-> 0, skipped |-> 0, errors |-> <<>>]

RestIdle == ParseIdle /\ JournalIdle /\ StatsIdle

MarkupInit ==
    /\ color \in BOOLEAN
    /\ base_level \in BaseLevels
    /\ MarkupStart
    /\ ImportInit
    /\ WrapIdle
    /\ LinksIdle
    /\ RestIdle

Fixed ==
    UNCHANGED <<color, base_level, importVars, wrapVars, linkVars, restVars>>

StartEvent ==
    \E tag \in Tags :
        /\ CanStart(tag)
        /\ Take(Event("Start", tag, <<>>))
        /\ open' = Append(open, tag)
        /\ RenderStart(tag)
        /\ OrgStart(tag)
        /\ UNCHANGED done /\ Fixed

EndEvent ==
    /\ CanEnd
    /\ Take(Event("End", Top, <<>>))
    /\ open' = SubSeq(open, 1, Len(open) - 1)
    /\ RenderEnd(Top)
    /\ OrgEnd(Top)
    /\ UNCHANGED done /\ Fixed

TextEvent ==
    \E text \in ParaTexts \cup CodeTexts :
        /\ CanText(text)
        /\ Take(Event("Text", NoTag, text))
        /\ RenderText(text)
        /\ OrgText(text)
        /\ UNCHANGED <<open, done>> /\ Fixed

CodeEvent ==
    \E text \in SpanTexts :
        /\ CanCode(text)
        /\ Take(Event("Code", NoTag, text))
        /\ RenderCode(text)
        /\ OrgCode(text)
        /\ UNCHANGED <<open, done>> /\ Fixed

SoftBreakEvent ==
    /\ CanBreak
    /\ Take(Event("SoftBreak", NoTag, <<>>))
    /\ RenderSoftBreak
    /\ OrgSoftBreak
    /\ UNCHANGED <<open, done>> /\ Fixed

HardBreakEvent ==
    /\ CanBreak
    /\ Take(Event("HardBreak", NoTag, <<>>))
    /\ RenderHardBreak
    /\ OrgHardBreak
    /\ UNCHANGED <<open, done>> /\ Fixed

OtherEvent ==
    \E kind \in OtherKinds :
        /\ CanOther(kind)
        /\ Take(Event(kind, NoTag, <<>>))
        /\ RenderOther
        /\ OrgOther
        /\ UNCHANGED <<open, done>> /\ Fixed

\* The parser is exhausted: both loops end and return their result.
EndOfEvents ==
    /\ ~done
    /\ open = <<>>
    /\ ~AfterBreak
    /\ done' = TRUE
    /\ UNCHANGED <<events, open, renderVars, orgVars>> /\ Fixed

MarkupNext ==
    \/ StartEvent
    \/ EndEvent
    \/ TextEvent
    \/ CodeEvent
    \/ SoftBreakEvent
    \/ HardBreakEvent
    \/ OtherEvent
    \/ EndOfEvents

SpecMarkup == MarkupInit /\ [][MarkupNext]_vars

(***************************************************************************)
(* Properties of the two event loops.                                      *)
(***************************************************************************)
RECURSIVE SortedSeq(_)
\* The members of a set of numbers, ascending.
SortedSeq(S) ==
    IF S = {} THEN <<>>
    ELSE LET m == CHOOSE x \in S : \A y \in S : x <= y
         IN  <<m>> \o SortedSeq(S \ {m})

RECURSIVE StripSgr(_)
\* The visible text: s without its SGR sequences ESC [ ... m.
StripSgr(s) ==
    IF s = <<>> THEN <<>>
    ELSE IF Len(s) >= 2 /\ s[1] = ESC /\ s[2] = "["
         THEN StripSgr(SubSeq(s, FindFrom(s, <<"m">>, 3) + 1, Len(s)))
         ELSE <<s[1]>> \o StripSgr(Tail(s))

EventsOf(type, kind) ==
    SortedSeq({i \in 1..Len(events) :
                  events[i].type = type /\ events[i].tag.kind = kind})

FlagKinds ==
    {"Emphasis", "Strong", "Strikethrough", "CodeBlock", "BlockQuote", "List"}

\* C1: when render_markdown has consumed a complete well-formed event
\* sequence, bold, italic, strikethrough, inCodeBlock and inBlockQuote are
\* all false and listDepth is 0.
C1_StyleStateReset ==
    done => /\ ~is_bold /\ ~is_italic /\ ~is_strikethrough
            /\ ~in_code_block /\ ~in_blockquote
            /\ list_depth = 0

\* A complete sequence in which a tag that sets a flag or the depth was
\* started (and so ended).
C1_Witness ==
    /\ done
    /\ \E i \in 1..Len(events) :
          events[i].type = "Start" /\ events[i].tag.kind \in FlagKinds

LinkStarts == EventsOf("Start", "Link")
LinkEnds   == EventsOf("End", "Link")
Osc8At     == SortedSeq(Occurrences(result, OSC8_LINK_PREFIX))

\* C2: the OSC 8 sequences of the output are, in order, the open sequence
\* of the 1st link, the close sequence of the 1st link, the open sequence
\* of the 2nd link, ...: the j-th open is '[' ESC ]8;; url ESC \ with the
\* url of the j-th Link, the j-th close is ESC ]8;; ESC \ ']', the text of
\* a link stands between its open and its close, and at the end of the
\* output every open has its close.
C2_HyperlinksAlternate ==
    LET n == Len(LinkStarts)
        m == Len(LinkEnds)
    IN  /\ Len(Osc8At) = n + m
        /\ m <= n /\ n <= m + 1
        /\ done => n = m
        /\ \A j \in 1..n :
              LET p   == Osc8At[2 * j - 1]
                  url == events[LinkStarts[j]].tag.arg
              IN  /\ p > 1 /\ result[p - 1] = "["
                  /\ p + 6 + Len(url) <= Len(result)
                  /\ SubSeq(result, p + 5, p + 6 + Len(url))
                        = url \o <<ESC, "\\">>
        /\ \A j \in 1..m :
              LET p == Osc8At[2 * j]
                  q == Osc8At[2 * j - 1]
                  s == LinkStarts[j]
                  url == events[s].tag.arg
              IN  /\ p + 7 <= Len(result)
                  /\ SubSeq(result, p + 5, p + 7) = <<ESC, "\\", "]">>
                  /\ (events[s + 1].type = "Text" /\ LinkEnds[j] = s + 2)
                        => Contains(SubSeq(result, q + 7 + Len(url), p - 1),
                                    events[s + 1].text)

\* A complete sequence with a link around a text run.
C2_Witness ==
    /\ done
    /\ \E j \in 1..Len(LinkStarts) :
          /\ events[LinkStarts[j] + 1].type = "Text"
          /\ events[LinkStarts[j] + 2].type = "End"

\* C5: convert_markdown_to_org writes a newline for a SoftBreak inside a
\* block quote and a space for a SoftBreak outside every block quote, also
\* after an earlier block quote was closed; a HardBreak is a newline.
C5_OrgBreaks ==
    /\ Last.type = "SoftBreak"
          => org_emitted = IF IsOpen("BlockQuote") THEN <<NL>> ELSE <<SP>>
    /\ Last.type = "HardBreak" => org_emitted = <<NL>>

\* C6: after every event the Outline Emitter and the Terminal Renderer hold
\* the same list depth and the same in-block-quote flag, and so write the
\* same paragraph separator and the same soft-break character.
C6_EmitterMirrorsRenderer ==
    /\ org_list_depth = list_depth
    /\ org_in_blockquote = in_blockquote
    /\ Last.type = "SoftBreak" => org_emitted = emitted
    /\ (Last.type = "End" /\ Last.tag.kind = "Paragraph")
          => org_emitted = emitted

\* The document so far is one block quote, still open, holding paragraphs
\* of text runs, breaks and styled text only, the last of them just ended.
QuotedParagraphsRendered ==
    /\ Len(events) >= 2
    /\ events[1].type = "Start" /\ events[1].tag.kind = "BlockQuote"
    /\ open = <<events[1].tag>>
    /\ Last.type = "End" /\ Last.tag.kind = "Paragraph"
    /\ \A i \in 2..Len(events) :
          /\ events[i].type \in
                {"Start", "End", "Text", "SoftBreak", "HardBreak"}
          /\ events[i].type \in {"Start", "End"}
                => events[i].tag.kind \in
                      {"Paragraph", "Emphasis", "Strong", "Strikethrough"}

\* C7: every physical line of a rendered block-quoted paragraph starts
\* with the quote glyph and holds it once, so there are as many glyphs as
\* physical lines.
C7_OneGlyphPerQuotedLine ==
    QuotedParagraphsRendered =>
        LET ls == Lines(StripSgr(result))
        IN  \A i \in 1..Len(ls) :
                /\ StartsWith(ls[i], QuoteGlyph)
                /\ Cardinality(Occurrences(ls[i], <<BAR>>)) = 1

(***************************************************************************)
(* convert_org_to_markdown and its helpers.                                *)
(***************************************************************************)
IsWhite(c) == c \in {SP, NL, "\t"}

RECURSIVE TrimStart(_)
TrimStart(s) ==
    IF s # <<>> /\ IsWhite(Head(s)) THEN TrimStart(Tail(s)) ELSE s

RECURSIVE TrimEnd(_)
TrimEnd(s) ==
    IF s # <<>> /\ IsWhite(s[Len(s)])
    THEN TrimEnd(SubSeq(s, 1, Len(s) - 1)) ELSE s

\* str::trim
Trim(s) == TrimEnd(TrimStart(s))

RECURSIVE TrimStartMatches(_, _)
\* str::trim_start_matches(char)
TrimStartMatches(s, c) ==
    IF s # <<>> /\ Head(s) = c THEN TrimStartMatches(Tail(s), c) ELSE s

RECURSIVE TakeWhileCount(_, _)
\* chars().take_while(|&x| x == c).count()
TakeWhileCount(s, c) ==
    IF s # <<>> /\ Head(s) = c THEN 1 + TakeWhileCount(Tail(s), c) ELSE 0

\* str::replace(from, to) for a one-character pattern
Replace(s, from, to) ==
    Flatten([i \in 1..Len(s) |-> IF s[i] = from THEN to ELSE <<s[i]>>])

RECURSIVE convert_delimiter_from(_, _, _, _)
\* The loop of convert_delimiter over the characters left, in_delimiter
\* being the toggle: either way the delimiter is written as to_delim.
convert_delimiter_from(chars, from_delim, to_delim, in_delimiter) ==
    IF chars = <<>> THEN <<>>
    ELSE IF Head(chars) = from_delim
         THEN IF in_delimiter
              THEN <<to_delim>>
                   \o convert_delimiter_from(Tail(chars), from_delim, to_delim, FALSE)
              ELSE <<to_delim>>
                   \o convert_delimiter_from(Tail(chars), from_delim, to_delim, TRUE)
         ELSE <<Head(chars)>>
              \o convert_delimiter_from(Tail(chars), from_delim, to_delim, in_delimiter)

convert_delimiter(text, from_delim, to_delim) ==
    convert_delimiter_from(text, from_delim, to_delim, FALSE)

RECURSIVE convert_org_links(_)
\* Indices are 1-based and absolute: middle is start + middle of the code,
\* end is start + middle + end.
convert_org_links(text) ==
    LET start == FindFrom(text, <<"[", "[">>, 1)
    IN  IF start = 0 THEN text
        ELSE LET middle == FindFrom(text, <<"]", "[">>, start)
             IN  IF middle = 0 THEN text
                 ELSE LET end == FindFrom(text, <<"]", "]">>, middle)
                      IN  IF end = 0 THEN text
                          ELSE LET url == SubSeq(text, start + 2, middle - 1)
                                   link_text == SubSeq(text, middle + 2, end - 1)
                                   markdown_link ==
                                       <<"[">> \o link_text \o <<"]", "(">>
                                           \o url \o <<")">>
                               IN  convert_org_links(
                                       SubSeq(text, 1, start - 1)
                                           \o markdown_link
                                           \o SubSeq(text, end + 2, Len(text)))

\* trimmed.starts_with('*') && trimmed.chars().nth(1) != Some('*')
IsHeading(trimmed) ==
    /\ StartsWith(trimmed, <<"*">>)
    /\ ~(Len(trimmed) >= 2 /\ trimmed[2] = "*")

ConvertHeading(trimmed) ==
    LET level == TakeWhileCount(trimmed, "*")
        rest  == Trim(TrimStartMatches(trimmed, "*"))
    IN  Repeat(<<"#">>, level) \o <<SP>> \o rest

\* Bold, italic, strikethrough, inline code, links, in this order.
ConvertFormatting(line) ==
    Bind(Replace(line, "*", <<"*", "*">>),
         LAMBDA bold :
    Bind(convert_delimiter(bold, "/", "*"),
         LAMBDA italic :
    Bind(convert_delimiter(italic, "+", "~"),
         LAMBDA strike :
    Bind(convert_delimiter(strike, "~", TICK),
         LAMBDA code : convert_org_links(code)))))

QuotePrefix == <<">", SP>>

\* What a converted line appends: the quote prefix when in a quote and the
\* line is not blank, the line, a newline.
ConvertedChunk(converted) ==
    (IF in_quote /\ Trim(converted) # <<>> THEN QuotePrefix ELSE <<>>)
        \o converted \o <<NL>>

(***************************************************************************)
(* The lines an outline document is made of in this model.                 *)
(***************************************************************************)
L_Blank == <<>>
L_Plain == <<"a", "b">>
L_Indented == <<SP, SP, "x">>
L_TestLine ==
    <<"*", "B", "o", "l", "d", "*", SP, "/", "i", "t", "a", "l", "i", "c",
      "/", SP, "+", "s", "t", "r", "i", "k", "e", "t", "h", "r", "o", "u",
      "g", "h", "+", SP, "~", "c", "o", "d", "e", "~">>
L_BoldItalic == <<"a", SP, "*", "x", "*", SP, "/", "y", "/">>
L_Heading1 == <<"*", SP, "T">>
L_Heading2 == <<"*", "*", SP, "T">>
L_Heading3 == <<"*", "*", "*", SP, "T">>
L_Strike == <<"a", SP, "+", "s", "+">>
L_InlineCode == <<"~", "c", "~">>
L_Link == <<"[", "[", "u", "]", "[", "t", "]", "]">>
L_LinkSlash == <<"[", "[", "h", ":", "/", "/", "x", "]", "[", "t", "]", "]">>
L_TwoLinks ==
    <<"[", "[", "u", "]", "[", "t", "]", "]", SP, "[", "[", "v", "]", "[",
      "w", "]", "]">>
L_NoClose == <<"[", "[", "a", "]", "[", "b">>
L_NoMiddle == <<"x", SP, "[", "[", "a">>
L_BeginSrc ==
    <<"#", "+", "B", "E", "G", "I", "N", "_", "S", "R", "C", SP, "r", "s">>
L_EndSrc == <<"#", "+", "E", "N", "D", "_", "S", "R", "C">>
L_EndSrcIndented == <<SP, SP, "#", "+", "E", "N", "D", "_", "S", "R", "C">>
L_BeginQuote ==
    <<"#", "+", "B", "E", "G", "I", "N", "_", "Q", "U", "O", "T", "E">>
L_EndQuote == <<"#", "+", "E", "N", "D", "_", "Q", "U", "O", "T", "E">>

OrgLines ==
    {L_Blank, L_Plain, L_Indented, L_TestLine,
     L_BoldItalic, L_Heading1, L_Heading2, L_Heading3,
     L_Strike, L_InlineCode, L_Link, L_LinkSlash,
     L_TwoLinks, L_NoClose, L_NoMiddle, L_BeginSrc,
     L_EndSrc, L_EndSrcIndented, L_BeginQuote, L_EndQuote}

(***************************************************************************)
(* The loop of convert_org_to_markdown: one action per branch.             *)
(***************************************************************************)
MoreLines == ~md_done /\ Len(lines) < MaxLines

Push(line, s) ==
    /\ lines' = Append(lines, line)
    /\ md_result' = md_result \o s
    /\ chunks' = Append(chunks, s)
    /\ UNCHANGED <<md_done, md>>

MarkupFixed ==
    UNCHANGED <<tokVars, renderVars, orgVars, wrapVars, linkVars, restVars>>

IsBeginSrc(line)   == StartsWith(Trim(line), BEGIN_SRC)
IsEndSrc(line)     == Trim(line) = END_SRC
IsBeginQuote(line) == StartsWith(Trim(line), BEGIN_QUOTE)
IsEndQuote(line)   == Trim(line) = END_QUOTE
IsMarker(line) ==
    IsBeginSrc(line) \/ IsEndSrc(line) \/ IsBeginQuote(line) \/ IsEndQuote(line)

SrcBegin ==
    \E line \in OrgLines :
        /\ MoreLines
        /\ IsBeginSrc(line)
        /\ in_src_block' = TRUE
        /\ Push(line, Fence
                      \o Trim(SubSeq(Trim(line), Len(BEGIN_SRC) + 1,
                                     Len(Trim(line))))
                      \o <<NL>>)
        /\ UNCHANGED in_quote /\ MarkupFixed

SrcEnd ==
    \E line \in OrgLines :
        /\ MoreLines
        /\ ~IsBeginSrc(line) /\ IsEndSrc(line)
        /\ in_src_block' = FALSE
        /\ Push(line, Fence \o <<NL>>)
        /\ UNCHANGED in_quote /\ MarkupFixed

QuoteBegin ==
    \E line \in OrgLines :
        /\ MoreLines
        /\ ~IsBeginSrc(line) /\ ~IsEndSrc(line) /\ IsBeginQuote(line)
        /\ in_quote' = TRUE
        /\ Push(line, QuotePrefix)
        /\ UNCHANGED in_src_block /\ MarkupFixed

QuoteEndKeepsFlag ==
    \E line \in OrgLines :
        /\ MoreLines
        /\ ~IsBeginSrc(line) /\ ~IsEndSrc(line) /\ ~IsBeginQuote(line)
        /\ IsEndQuote(line)
        /\ Push(line, <<NL>>)
        /\ UNCHANGED <<in_src_block, in_quote>> /\ MarkupFixed
QuoteEnd ==
    \E line \in OrgLines :
        /\ MoreLines
        /\ ~IsBeginSrc(line) /\ ~IsEndSrc(line) /\ ~IsBeginQuote(line)
        /\ IsEndQuote(line)
        /\ in_quote' = FALSE
        /\ Push(line, <<NL>>)
        /\ UNCHANGED in_src_block /\ MarkupFixed

SrcPassThrough ==
    \E line \in OrgLines :
        /\ MoreLines
        /\ ~IsMarker(line)
        /\ in_src_block
        /\ Push(line, line \o <<NL>>)
        /\ UNCHANGED <<in_src_block, in_quote>> /\ MarkupFixed

HeadingLine ==
    \E line \in OrgLines :
        /\ MoreLines
        /\ ~IsMarker(line)
        /\ ~in_src_block
        /\ IsHeading(Trim(line))
        /\ Push(line, ConvertedChunk(ConvertHeading(Trim(line))))
        /\ UNCHANGED <<in_src_block, in_quote>> /\ MarkupFixed

FormattedLine ==
    \E line \in OrgLines :
        /\ MoreLines
        /\ ~IsMarker(line)
        /\ ~in_src_block
        /\ ~IsHeading(Trim(line))
        /\ Push(line, ConvertedChunk(ConvertFormatting(line)))
        /\ UNCHANGED <<in_src_block, in_quote>> /\ MarkupFixed

\* org.lines() is exhausted: return result.trim().
EndOfLines ==
    /\ ~md_done
    /\ md_done' = TRUE
    /\ md' = Trim(md_result)
    /\ UNCHANGED <<lines, in_src_block, in_quote, md_result, chunks>>
    /\ MarkupFixed

ImportNext ==
    \/ SrcBegin
    \/ SrcEnd
    \/ QuoteBegin
    \/ QuoteEnd
    \/ SrcPassThrough
    \/ HeadingLine
    \/ FormattedLine
    \/ EndOfLines

\* The markup side stands still while an outline document is converted.
OrgInit ==
    /\ color = TRUE
    /\ base_level = 1
    /\ MarkupStart
    /\ ImportInit
    /\ WrapIdle
    /\ LinksIdle
    /\ RestIdle

SpecOrg == OrgInit /\ [][ImportNext]_vars

(***************************************************************************)
(* Properties of convert_org_to_markdown.                                  *)
(***************************************************************************)
Letters ==
    {"a", "b", "c", "d", "e", "g", "h", "i", "k", "l", "o", "r", "s", "t",
     "u", "v", "w", "x", "y", "B", "T"}

\* The texts x of the spans d x d of a line: x is one or more letters.
Spans(line, d) ==
    {SubSeq(line, a + 1, b - 1) :
        <<a, b>> \in {p \in (1..Len(line)) \X (1..Len(line)) :
                        /\ p[1] + 1 < p[2]
                        /\ line[p[1]] = d /\ line[p[2]] = d
                        /\ \A k \in (p[1] + 1)..(p[2] - 1) :
                              line[k] \in Letters}}

NoBracket(s) == \A k \in 1..Len(s) : s[k] \notin {"[", "]"}

\* The <<url, text>> of the links [[url][text]] of a line, url and text
\* without square brackets.
Links(line) ==
    {<<SubSeq(line, t[1] + 2, t[2] - 1), SubSeq(line, t[2] + 2, t[3] - 1)>> :
        t \in {q \in (1..Len(line)) \X (1..Len(line)) \X (1..Len(line)) :
                 /\ q[1] + 2 <= q[2] /\ q[2] + 2 <= q[3] /\ q[3] < Len(line)
                 /\ SubSeq(line, q[1], q[1] + 1) = <<"[", "[">>
                 /\ SubSeq(line, q[2], q[2] + 1) = <<"]", "[">>
                 /\ SubSeq(line, q[3], q[3] + 1) = <<"]", "]">>
                 /\ NoBracket(SubSeq(line, q[1] + 2, q[2] - 1))
                 /\ NoBracket(SubSeq(line, q[2] + 2, q[3] - 1))}}

\* Line i stands after a #+BEGIN_SRC line with no #+END_SRC line between.
SrcOpenAt(i) ==
    \E b \in 1..(i - 1) :
        /\ IsBeginSrc(lines[b])
        /\ \A j \in (b + 1)..(i - 1) : ~IsEndSrc(lines[j])

QuoteOpenAt(i) ==
    \E b \in 1..(i - 1) :
        /\ IsBeginQuote(lines[b])
        /\ \A j \in (b + 1)..(i - 1) : ~IsEndQuote(lines[j])

\* Line i is code: inside a source block that a later line closes, and not
\* itself a source marker.
IsCodeLine(i) ==
    /\ SrcOpenAt(i)
    /\ ~IsBeginSrc(lines[i]) /\ ~IsEndSrc(lines[i])
    /\ \E e \in (i + 1)..Len(lines) : IsEndSrc(lines[e])

\* Line i is text: outside every source block and no marker.
IsTextLine(i) == ~SrcOpenAt(i) /\ ~IsMarker(lines[i])

\* A line that starts with the heading marker.
StartsAsHeading(line) == StartsWith(Trim(line), <<"*">>)

\* C3: every line between a #+BEGIN_SRC line and the following #+END_SRC
\* line is copied to the output unchanged, whatever it contains.
C3_CodePassesThrough ==
    \A i \in 1..Len(lines) :
        IsCodeLine(i) => chunks[i] = lines[i] \o <<NL>>

\* C4: a text line with an outline bold span *x* is converted to output
\* that contains **x**, and one with an italic span /x/ to output that
\* contains *x*, wherever the span stands on the line.
C4_BoldAndItalic ==
    \A i \in 1..Len(lines) :
        IsTextLine(i) =>
            /\ \A x \in Spans(lines[i], "*") :
                  Contains(chunks[i], <<"*", "*">> \o x \o <<"*", "*">>)
            /\ \A x \in Spans(lines[i], "/") :
                  Contains(chunks[i], <<"*">> \o x \o <<"*">>)

\* C8: on a non-heading text line every link [[url][text]] whose url and
\* text hold no square bracket is rewritten to [text](url), url and text
\* carried over character for character.
C8_LinksRewritten ==
    \A i \in 1..Len(lines) :
        (IsTextLine(i) /\ ~StartsAsHeading(lines[i])) =>
            \A l \in Links(lines[i]) :
                Contains(chunks[i],
                         <<"[">> \o l[2] \o <<"]", "(">> \o l[1] \o <<")">>)

\* C9: a heading line of k >= 1 markers '*', a space and text is converted
\* to k '#', a space and the same text.
C9_HeadingLevels ==
    \A i \in 1..Len(lines) :
        LET k    == TakeWhileCount(lines[i], "*")
            text == SubSeq(lines[i], k + 2, Len(lines[i]))
        IN  (/\ IsTextLine(i) /\ ~QuoteOpenAt(i)
             /\ k >= 1
             /\ Len(lines[i]) >= k + 2 /\ lines[i][k + 1] = SP
             /\ Trim(text) = text)
                => chunks[i] = Repeat(<<"#">>, k) \o <<SP>> \o text \o <<NL>>

\* C10: on a non-heading text line a strikethrough span +text+ is converted
\* to ~~text~~ and an inline-code span ~code~ to `code`.
C10_StrikethroughAndCode ==
    \A i \in 1..Len(lines) :
        (IsTextLine(i) /\ ~StartsAsHeading(lines[i])) =>
            /\ \A x \in Spans(lines[i], "+") :
                  Contains(chunks[i], <<"~", "~">> \o x \o <<"~", "~">>)
            /\ \A x \in Spans(lines[i], "~") :
                  Contains(chunks[i], <<TICK>> \o x \o <<TICK>>)

\* Line i is a quote marker the loop reaches as one: outside every source
\* block and no source marker.
IsQuoteMarkerLine(i) ==
    /\ ~SrcOpenAt(i)
    /\ ~IsBeginSrc(lines[i]) /\ ~IsEndSrc(lines[i])
    /\ IsBeginQuote(lines[i]) \/ IsEndQuote(lines[i])

\* C11: a quote-marker line (#+BEGIN_QUOTE or #+END_QUOTE) only sets or
\* clears inQuote and appends nothing to the output; a quote prefix "> " is
\* appended only by a non-blank text line while inQuote is true.
C11_QuoteMarkersAppendNothing ==
    /\ \A i \in 1..Len(lines) :
          /\ IsQuoteMarkerLine(i) => chunks[i] = <<>>
          /\ StartsWith(chunks[i], QuotePrefix)
                => IsTextLine(i) /\ QuoteOpenAt(i) /\ Trim(lines[i]) # <<>>
    /\ (lines # <<>> /\ IsQuoteMarkerLine(Len(lines)))
          => in_quote = IsBeginQuote(lines[Len(lines)])

(***************************************************************************)
(* wrap_text.  textwrap::wrap is modelled for one line of ASCII text as    *)
(* the crate documents it: the line is cut into words, each a run of       *)
(* non-space characters with the spaces that follow it; a word wider than  *)
(* the width is broken into pieces of the width (break_words); the words   *)
(* are placed first-fit; the spaces at the end of a wrapped line go.       *)
(***************************************************************************)
Word(word, whitespace) == [word |-> word, whitespace |-> whitespace]

\* The length of the longest prefix of s whose characters are all spaces
\* (space = TRUE) or all non-spaces (space = FALSE).
RECURSIVE RunLength(_, _)
RunLength(s, space) ==
    IF s # <<>> /\ ((Head(s) = SP) = space)
    THEN 1 + RunLength(Tail(s), space) ELSE 0

RECURSIVE find_words(_)
find_words(line) ==
    IF line = <<>> THEN <<>>
    ELSE LET w  == RunLength(line, FALSE)
             ws == RunLength(SubSeq(line, w + 1, Len(line)), TRUE)
         IN  <<Word(SubSeq(line, 1, w), ws)>>
                 \o find_words(SubSeq(line, w + ws + 1, Len(line)))

RECURSIVE break_word(_, _)
\* A word wider than the width, cut into pieces of the width; the spaces
\* stay with the last piece.
break_word(w, width) ==
    IF Len(w.word) <= width THEN <<w>>
    ELSE <<Word(SubSeq(w.word, 1, width), 0)>>
             \o break_word(Word(SubSeq(w.word, width + 1, Len(w.word)),
                                w.whitespace), width)

break_words(words, width) ==
    Flatten([i \in 1..Len(words) |-> break_word(words[i], width)])

\* The text of a wrapped line: its words with the spaces between them.
LineText(words) ==
    IF words = <<>> THEN <<>>
    ELSE Flatten([i \in 1..Len(words) |->
                    words[i].word
                        \o (IF i < Len(words)
                            THEN Repeat(<<SP>>, words[i].whitespace)
                            ELSE <<>>)])

RECURSIVE wrap_first_fit(_, _, _, _)
\* words[start..idx) is the line being filled, used its width so far.
wrap_first_fit(words, width, start, idx) ==
    LET used == Len(LineText(SubSeq(words, start, idx - 1)))
                    + (IF idx > start THEN words[idx - 1].whitespace ELSE 0)
    IN  IF idx > Len(words)
        THEN <<LineText(SubSeq(words, start, Len(words)))>>
        ELSE IF used + Len(words[idx].word) > width /\ idx > start
             THEN <<LineText(SubSeq(words, start, idx - 1))>>
                      \o wrap_first_fit(words, width, idx, idx + 1)
             ELSE wrap_first_fit(words, width, start, idx + 1)

\* textwrap::wrap(line, Options::new(width).break_words(true))
wrap(line, width) ==
    wrap_first_fit(break_words(find_words(line), width), width, 1, 1)

\* text.lines().map(..).collect::<Vec<_>>().join("\n")
wrap_text(text, width) ==
    LET ls == Lines(text)
    IN  Join([i \in 1..Len(ls) |->
                 IF ls[i] = <<>> THEN <<>>
                 ELSE Join(wrap(ls[i], width), <<NL>>)],
             <<NL>>)

WrapChars == {"a", SP, NL}

WrapTexts == UNION {[1..n -> WrapChars] : n \in 0..MaxTextLen}

WrapInit ==
    /\ w_text \in WrapTexts
    /\ w_width \in 1..MaxWidth
    /\ w_out = <<>>
    /\ color = TRUE
    /\ base_level = 1
    /\ MarkupStart
    /\ ImportInit
    /\ LinksIdle
    /\ RestIdle

OthersFixed ==
    UNCHANGED <<tokVars, renderVars, orgVars, importVars, linkVars, restVars>>

\* wrap_text(text, width)
WrapOnce ==
    /\ w_out = <<>>
    /\ w_out' = <<wrap_text(w_text, w_width)>>
    /\ UNCHANGED <<w_text, w_width>> /\ OthersFixed

\* wrap_text(wrapped, width), wrapped being what the first call returned
WrapAgain ==
    /\ Len(w_out) = 1
    /\ w_out' = Append(w_out, wrap_text(w_out[1], w_width))
    /\ UNCHANGED <<w_text, w_width>> /\ OthersFixed

WrapNext == WrapOnce \/ WrapAgain

SpecWrap == WrapInit /\ [][WrapNext]_vars

(***************************************************************************)
(* Properties of wrap_text.                                                *)
(***************************************************************************)
\* C12: for every text and every width >= 1, wrapping the wrapped text
\* again at the same width gives the wrapped text, also when the text ends
\* in one or more blank lines.
C12_WrapIdempotent ==
    Len(w_out) = 2 => w_out[2] = w_out[1]

(***************************************************************************)
(* The two event loops over list events alone, nested as deep as the       *)
(* number of events allows.  The loops do not check the nesting of what    *)
(* they are sent, so besides the events of a well-formed list document     *)
(* this specification also sends the two events the arms of List and Item  *)
(* guard against with saturating_sub: a List end and a ListItem start      *)
(* while no list is open.  pulldown_cmark itself never sends them.         *)
(***************************************************************************)
ListTag == Tag("List", 0, <<>>, FALSE)

MoreListEvents == ~done /\ Len(events) < MaxListEvents

ListStartEvent ==
    /\ MoreListEvents
    /\ BlockCtx
    /\ Take(Event("Start", ListTag, <<>>))
    /\ open' = Append(open, ListTag)
    /\ RenderStart(ListTag)
    /\ OrgStart(ListTag)
    /\ UNCHANGED done /\ Fixed

ListItemEvent ==
    /\ MoreListEvents
    /\ Top.kind = "List"
    /\ Take(Event("Start", ItemTag, <<>>))
    /\ open' = Append(open, ItemTag)
    /\ RenderStart(ItemTag)
    /\ OrgStart(ItemTag)
    /\ UNCHANGED done /\ Fixed

ListTextEvent ==
    \E text \in ParaTexts :
        /\ MoreListEvents
        /\ Top.kind = "Item"
        /\ Take(Event("Text", NoTag, text))
        /\ RenderText(text)
        /\ OrgText(text)
        /\ UNCHANGED <<open, done>> /\ Fixed

\* The End of the innermost open List or Item; a list is never empty.
ListEndEvent ==
    /\ MoreListEvents
    /\ open # <<>>
    /\ Top.kind = "List" => Last.type # "Start"
    /\ Take(Event("End", Top, <<>>))
    /\ open' = SubSeq(open, 1, Len(open) - 1)
    /\ RenderEnd(Top)
    /\ OrgEnd(Top)
    /\ UNCHANGED done /\ Fixed

\* End(List) while no list is open.
StrayListEnd ==
    /\ MoreListEvents
    /\ BlockCtx
    /\ ~IsOpen("List")
    /\ Take(Event("End", ListTag, <<>>))
    /\ RenderEnd(ListTag)
    /\ OrgEnd(ListTag)
    /\ UNCHANGED <<open, done>> /\ Fixed

\* Start(Item) while no list is open.
StrayItemEvent ==
    /\ MoreListEvents
    /\ BlockCtx
    /\ ~IsOpen("List")
    /\ Take(Event("Start", ItemTag, <<>>))
    /\ open' = Append(open, ItemTag)
    /\ RenderStart(ItemTag)
    /\ OrgStart(ItemTag)
    /\ UNCHANGED done /\ Fixed

ListsNext ==
    \/ ListStartEvent
    \/ ListItemEvent
    \/ ListTextEvent
    \/ ListEndEvent
    \/ StrayListEnd
    \/ StrayItemEvent
    \/ EndOfEvents

SpecLists == MarkupInit /\ [][ListsNext]_vars

(***************************************************************************)
(* Properties of the list arms.                                            *)
(***************************************************************************)
\* The lists open: the nesting depth of what comes next.
ListsOpen == Cardinality({i \in 1..Len(open) : open[i].kind = "List"})

\* C13: listDepth is never below 0, also after a List end or a ListItem
\* start that came with no list open; it is the number of lists open, so
\* each List end restores the depth that held before the matching List
\* start; and a ListItem start at nesting depth d >= 1 writes exactly d-1
\* two-space units and then the bullet.
C13_ListDepthAndIndent ==
    /\ list_depth >= 0
    /\ list_depth = ListsOpen
    /\ (Last.type = "Start" /\ Last.tag.kind = "Item" /\ ListsOpen >= 1)
          => StripSgr(emitted)
                = Repeat(<<SP, SP>>, ListsOpen - 1) \o <<BULLET, SP>>

\* A List end came with no list open, and later an item of a list nested in
\* an item of a list was started.
C13_Witness ==
    /\ events # <<>>
    /\ events[1].type = "End" /\ events[1].tag.kind = "List"
    /\ Last.type = "Start" /\ Last.tag.kind = "Item"
    /\ ListsOpen = 2

(***************************************************************************)
(* More properties of the two event loops (SpecMarkup).                    *)
(***************************************************************************)
\* The step hands a new event to the loops.
EventTaken == events' # events
Taken == events'[Len(events')]

\* The step leaves render_markdown's output, flags and depth as they were.
RenderUntouched ==
    UNCHANGED <<result, is_italic, is_bold, is_strikethrough,
                in_code_block, in_blockquote, list_depth>>

\* The events render_markdown has no arm for: the start of a paragraph, an
\* image, a rule, inline HTML.
HasNoArm(ev) ==
    \/ ev.type = "Start" /\ ev.tag.kind \in {"Paragraph", "Image"}
    \/ ev.type = "End" /\ ev.tag.kind = "Image"
    \/ ev.type \in OtherKinds

IsItemEnd(ev) == ev.type = "End" /\ ev.tag.kind = "Item"

\* C14 as stated: a Paragraph start, a ListItem end and every unsupported
\* event append nothing to the output and leave every style flag and
\* listDepth unchanged.
C14_IgnoredWithItemEnd ==
    [][(EventTaken /\ (HasNoArm(Taken) \/ IsItemEnd(Taken)))
          => RenderUntouched]_vars

\* C14, amended: every event render_markdown has no arm for (Paragraph
\* start, image, rule, inline HTML) appends nothing to the output and leaves
\* every style flag and listDepth unchanged; a ListItem end is not one of
\* them: it appends one newline, and changes no flag and not listDepth.
C14_UnhandledIgnored ==
    [][EventTaken =>
          /\ HasNoArm(Taken) => RenderUntouched
          /\ IsItemEnd(Taken) =>
                /\ result' = result \o <<NL>>
                /\ UNCHANGED <<is_italic, is_bold, is_strikethrough,
                               in_code_block, in_blockquote, list_depth>>]_vars

\* An unsupported event came inside a styled span, after output was
\* written.
C14_Witness ==
    /\ Last.type = "InlineHtml"
    /\ result # <<>>
    /\ is_bold \/ is_italic \/ is_strikethrough

\* The document so far is made of complete paragraphs of plain text: text
\* runs and, for a line break of the source inside a paragraph, soft breaks.
PlainParagraphs ==
    /\ events # <<>>
    /\ open = <<>>
    /\ \A i \in 1..Len(events) :
          \/ events[i].type \in {"Start", "End"}
                /\ events[i].tag.kind = "Paragraph"
          \/ events[i].type = "Text"
          \/ events[i].type = "SoftBreak"

\* The text of the paragraphs, each followed by the paragraph separator,
\* a line break inside a paragraph written as brk.
ParagraphText(brk) ==
    Flatten([i \in 1..Len(events) |->
                CASE events[i].type = "Text"      -> events[i].text
                  [] events[i].type = "SoftBreak" -> brk
                  [] events[i].type = "End"       -> <<NL, NL>>
                  [] OTHER                        -> <<>>])

\* C15 as stated: the rendering of paragraphs of plain text is the input
\* text, each paragraph followed by the separator newlines, with no
\* character added, removed or replaced.
C15_PlainTextUnchanged ==
    PlainParagraphs => result = ParagraphText(<<NL>>)

\* C15, amended: the rendering of paragraphs of plain text is the input
\* text, each paragraph followed by the separator newlines, with every line
\* break inside a paragraph replaced by one space; no other character is
\* added, removed or replaced and no control sequence is inserted.
C15_PlainTextSpaced ==
    PlainParagraphs => result = ParagraphText(<<SP>>)

\* A paragraph of two lines of plain text was rendered with colours on.
C15_Witness ==
    /\ PlainParagraphs
    /\ color
    /\ \E i \in 1..Len(events) : events[i].type = "SoftBreak"

\* C16: for a heading of level L in 1..6 and base level b the emitter
\* writes exactly L + b markers '*' and one space at the Start of the
\* heading, and the heading text right after them.
C16_HeadingOffset ==
    /\ (Last.type = "Start" /\ Last.tag.kind = "Heading")
          => /\ Last.tag.level \in 1..6
             /\ org_emitted
                   = Repeat(<<"*">>, Last.tag.level + base_level) \o <<SP>>
    /\ (/\ Len(events) >= 2
        /\ events[1].type = "Start" /\ events[1].tag.kind = "Heading"
        /\ events[2].type = "Text")
          => LET n == events[1].tag.level + base_level
             IN  /\ Len(org_result) >= n + 1 + Len(events[2].text)
                 /\ \A k \in 1..n : org_result[k] = "*"
                 /\ org_result[n + 1] = SP
                 /\ SubSeq(org_result, n + 2, n + 1 + Len(events[2].text))
                       = events[2].text

\* A heading of level 6 with its text was emitted under base level 1.
C16_Witness ==
    /\ base_level = 1
    /\ Len(events) = 2
    /\ events[1].type = "Start" /\ events[1].tag.kind = "Heading"
    /\ events[1].tag.level = 6
    /\ events[2].type = "Text"

StyleKinds == {"Emphasis", "Strong", "Strikethrough"}

\* The outline delimiter of a style.
Delimiter(kind) ==
    CASE kind = "Strong"        -> "*"
      [] kind = "Emphasis"      -> "/"
      [] kind = "Strikethrough" -> "+"

\* The document so far is made of paragraphs of text, breaks and styled
\* spans only, so every delimiter character of the output is one a style
\* event wrote.
StyledParagraphs ==
    \A i \in 1..Len(events) :
        /\ events[i].type \in {"Start", "End", "Text", "SoftBreak", "HardBreak"}
        /\ events[i].type \in {"Start", "End"}
              => events[i].tag.kind \in ({"Paragraph"} \cup StyleKinds)

\* C17: the emitter writes '*' at the Start and at the End of Strong, '/'
\* for Emphasis and '+' for Strikethrough; the markup **Bold** comes out as
\* *Bold*; and the delimiters written for a style are one per Start and
\* one per End, an even number whenever no span of the style is open.
C17_StyleDelimiters ==
    /\ (Last.type \in {"Start", "End"} /\ Last.tag.kind \in StyleKinds)
          => org_emitted = <<Delimiter(Last.tag.kind)>>
    /\ (/\ Len(events) = 5
        /\ events[1].type = "Start" /\ events[1].tag.kind = "Paragraph"
        /\ events[2].type = "Start" /\ events[2].tag.kind = "Strong"
        /\ events[3].type = "Text"
        /\ events[4].type = "End"
        /\ events[5].type = "End")
          => Trim(org_result) = <<"*">> \o events[3].text \o <<"*">>
    /\ StyledParagraphs =>
          \A kind \in StyleKinds :
              LET n == Cardinality(Occurrences(org_result, <<Delimiter(kind)>>))
              IN  /\ n = Len(EventsOf("Start", kind)) + Len(EventsOf("End", kind))
                  /\ ~IsOpen(kind) => n % 2 = 0

\* The complete document **bc** was emitted.
C17_Witness ==
    /\ done
    /\ Len(events) = 5
    /\ events[2].type = "Start" /\ events[2].tag.kind = "Strong"
    /\ events[3].type = "Text" /\ events[3].text = <<"b", "c">>
    /\ events[4].type = "End" /\ events[4].tag.kind = "Strong"

\* C20: a SoftBreak appends a single space when inBlockQuote is false and
\* a newline when it is true; a HardBreak appends a newline in every state;
\* neither changes a style flag or listDepth.
C20_RendererBreaks ==
    [][EventTaken =>
          /\ Taken.type = "SoftBreak" =>
                /\ result' = result \o (IF in_blockquote THEN <<NL>> ELSE <<SP>>)
                /\ emitted' = (IF in_blockquote THEN <<NL>> ELSE <<SP>>)
                /\ RenderKeep
          /\ Taken.type = "HardBreak" =>
                /\ result' = result \o <<NL>>
                /\ emitted' = <<NL>>
                /\ RenderKeep]_vars

\* A soft break was rendered inside a block quote.
C20_Witness ==
    /\ Last.type = "SoftBreak"
    /\ in_blockquote
    /\ emitted = <<NL>>

(***************************************************************************)
(* convert_org_links, one action per turn of its loop.                     *)
(***************************************************************************)
\* result.find("[["), 0 for None
LinkStart(s) == FindFrom(s, <<"[", "[">>, 1)

\* start + middle, middle being result[start..].find("]["); 0 for None
LinkMiddle(s) == FindFrom(s, <<"]", "[">>, LinkStart(s))

\* start + middle + end, end being result[start + middle..].find("]]")
LinkEnd(s) == FindFrom(s, <<"]", "]">>, LinkMiddle(s))

LinkFound(s) ==
    /\ LinkStart(s) # 0
    /\ LinkMiddle(s) # 0
    /\ LinkEnd(s) # 0

\* The link written back with its brackets: as long as what it replaces.
OrgLinkAgain(link_text, url) ==
    <<"[", "[">> \o url \o <<"]", "[">> \o link_text \o <<"]", "]">>
\* format!("[{}]({})", link_text, url)
MarkdownLink(link_text, url) ==
    <<"[">> \o link_text \o <<"]", "(">> \o url \o <<")">>

\* result after replace_range(start..text_end + 2, &markdown_link)
LinkReplaced(s) ==
    LET url       == SubSeq(s, LinkStart(s) + 2, LinkMiddle(s) - 1)
        link_text == SubSeq(s, LinkMiddle(s) + 2, LinkEnd(s) - 1)
    IN  SubSeq(s, 1, LinkStart(s) - 1)
            \o MarkdownLink(link_text, url)
            \o SubSeq(s, LinkEnd(s) + 2, Len(s))

LinkPieces ==
    {<<"[", "[">>, <<"]", "[">>, <<"]", "]">>, <<"a">>, <<"[">>}

LinkTexts ==
    {Flatten(ps) : ps \in UNION {[1..n -> LinkPieces] : n \in 0..MaxPieces}}

LinksInit ==
    /\ lk_text \in LinkTexts
    /\ lk_result = lk_text
    /\ lk_done = FALSE
    /\ color = TRUE
    /\ base_level = 1
    /\ MarkupStart
    /\ ImportInit
    /\ WrapIdle
    /\ RestIdle

LinksFixed ==
    UNCHANGED <<tokVars, renderVars, orgVars, importVars, wrapVars, lk_text,
                restVars>>

\* "[[", "][" and "]]" are found: the link is replaced, the loop goes on.
LinkReplace ==
    /\ ~lk_done
    /\ LinkFound(lk_result)
    /\ lk_result' = LinkReplaced(lk_result)
    /\ UNCHANGED lk_done /\ LinksFixed

\* "[[" is found and "][" or "]]" is not: break.
LinkBreak ==
    /\ ~lk_done
    /\ LinkStart(lk_result) # 0
    /\ ~LinkFound(lk_result)
    /\ lk_done' = TRUE
    /\ UNCHANGED lk_result /\ LinksFixed

\* No "[[" is found: the while let ends.
LinkReturn ==
    /\ ~lk_done
    /\ LinkStart(lk_result) = 0
    /\ lk_done' = TRUE
    /\ UNCHANGED lk_result /\ LinksFixed

LinksNext == LinkReplace \/ LinkBreak \/ LinkReturn

\* The loop is sequential code: it takes its next turn.
SpecLinks == LinksInit /\ [][LinksNext]_vars /\ WF_vars(LinksNext)

(***************************************************************************)
(* Properties of convert_org_links.                                        *)
(***************************************************************************)
\* The slices the loop takes are in range: no index panic.
LinkSlicesInRange ==
    (~lk_done /\ LinkFound(lk_result)) =>
        /\ LinkStart(lk_result) + 2 <= LinkMiddle(lk_result)
        /\ LinkMiddle(lk_result) + 2 <= LinkEnd(lk_result)
        /\ LinkEnd(lk_result) + 1 <= Len(lk_result)

\* C18: convert_org_links returns on every line and takes no slice out of
\* range; when a "[[" has no "][" or no "]]" after it the loop stops and
\* the text is returned as it stands; every replacement makes the text
\* strictly shorter.  What is returned is what the function computes.
C18_LinkScanTerminates ==
    /\ <>lk_done
    /\ []LinkSlicesInRange
    /\ [](lk_done => lk_result = convert_org_links(lk_text))
    /\ [][(~lk_done /\ LinkStart(lk_result) # 0 /\ ~LinkFound(lk_result))
             => (lk_done' /\ lk_result' = lk_result)]_vars
    /\ [][lk_result' # lk_result => Len(lk_result') < Len(lk_result)]_vars

\* A link was replaced, and the loop then stopped at a "[[" with no "]["
\* or no "]]" after it, which is still in the returned text.
C18_Witness ==
    /\ lk_done
    /\ lk_result # lk_text
    /\ LinkStart(lk_result) # 0

(***************************************************************************)
(* More properties of convert_org_to_markdown (SpecOrg).                   *)
(***************************************************************************)
\* Every #+BEGIN_SRC line is followed by a #+END_SRC line and every
\* #+BEGIN_QUOTE line by a #+END_QUOTE line.
BlocksClosed ==
    \A i \in 1..Len(lines) :
        /\ IsBeginSrc(lines[i])
              => \E j \in (i + 1)..Len(lines) : IsEndSrc(lines[j])
        /\ IsBeginQuote(lines[i])
              => \E j \in (i + 1)..Len(lines) : IsEndQuote(lines[j])

\* C19: when the last line of an outline text in which every block that is
\* begun is ended has been processed, inCodeBlock and inQuote are false.
C19_FlagsClearAtEnd ==
    (md_done /\ BlocksClosed) => (~in_src_block /\ ~in_quote)

\* An outline text with a block that is begun, holds a line and is ended
\* was converted.
C19_Witness ==
    /\ md_done
    /\ BlocksClosed
    /\ Len(lines) = 3
    /\ IsBeginSrc(lines[1]) \/ IsBeginQuote(lines[1])
    /\ ~IsMarker(lines[2])

(***************************************************************************)
(* Text runs and context flags of render_markdown (SpecMarkup).            *)
(***************************************************************************)
\* The SGR parameters a string starts with: the characters between ESC [
\* and m, the separators left out.
SgrParams(s) ==
    IF Len(s) >= 3 /\ s[1] = ESC /\ s[2] = "["
    THEN {s[k] : k \in 3..(FindFrom(s, <<"m">>, 3) - 1)} \ {";"}
    ELSE {}

\* The SGR parameters of the style flags that are set.
StyleCodes ==
    (IF is_bold THEN {"1"} ELSE {})
        \cup (IF is_italic THEN {"3"} ELSE {})
        \cup (IF is_strikethrough THEN {"9"} ELSE {})

\* C25: a text run is written by a fixed priority.  In a code block it is
\* written as it is, in the code colour, whatever the other flags are;
\* else in a block quote every line of it gets the quote glyph, in the
\* quote colour, whatever the style flags are; else it is written with
\* bold, italic and strikethrough, each exactly when its flag is set.
\* With colours switched off the escape sequences are left out.
C25_TextPriority ==
    Last.type = "Text" =>
        LET text == Last.text
            ls   == Lines(text)
        IN  IF in_code_block
            THEN emitted = (IF color THEN Sgr(BrightGreen) \o text \o SgrReset
                            ELSE text)
            ELSE IF in_blockquote
            THEN emitted =
                    Join([i \in 1..Len(ls) |->
                             IF color
                             THEN Sgr(BrightBlack) \o <<BAR, SP>> \o ls[i]
                                      \o SgrReset
                             ELSE <<BAR, SP>> \o ls[i]],
                         <<NL>>)
            ELSE /\ StripSgr(emitted) = text
                 /\ color => SgrParams(emitted) = StyleCodes
                 /\ (~color \/ StyleCodes = {}) => emitted = text

\* A bold text run was rendered inside a block quote with colours on.
C25_Witness ==
    /\ Last.type = "Text"
    /\ color
    /\ in_blockquote /\ ~in_code_block
    /\ is_bold

\* C26: after every event each context flag is true exactly when a block
\* of its kind is open, also when blocks of one kind are nested.
C26_FlagsFollowOpenBlocks ==
    ~done =>
        /\ in_blockquote    = IsOpen("BlockQuote")
        /\ is_bold          = IsOpen("Strong")
        /\ is_italic        = IsOpen("Emphasis")
        /\ is_strikethrough = IsOpen("Strikethrough")
        /\ in_code_block    = IsOpen("CodeBlock")

(***************************************************************************)
(* The header parsers of the org-journal import (import/mod.rs).           *)
(***************************************************************************)
\* str::split(c): the pieces between the occurrences of c, at least one.
RECURSIVE Split(_, _)
Split(s, c) ==
    Bind(FindFrom(s, <<c>>, 1),
         LAMBDA k : IF k = 0 THEN <<s>>
                    ELSE <<SubSeq(s, 1, k - 1)>>
                             \o Split(SubSeq(s, k + 1, Len(s)), c))

\* str::splitn(2, c): split at the first c only.
SplitN2(s, c) ==
    Bind(FindFrom(s, <<c>>, 1),
         LAMBDA k : IF k = 0 THEN <<s>>
                    ELSE <<SubSeq(s, 1, k - 1), SubSeq(s, k + 1, Len(s))>>)

DigitChars == <<"0", "1", "2", "3", "4", "5", "6", "7", "8", "9">>
IsDigit(c) == \E k \in 1..10 : DigitChars[k] = c
DigitValue(c) == (CHOOSE k \in 1..10 : DigitChars[k] = c) - 1

\* The number a string of digits denotes.
RECURSIVE Decimal(_)
Decimal(s) ==
    IF s = <<>> THEN 0
    ELSE 10 * Decimal(SubSeq(s, 1, Len(s) - 1)) + DigitValue(s[Len(s)])

AllDigits(s) == s # <<>> /\ \A k \in 1..Len(s) : IsDigit(s[k])

\* str::parse::<u32>(): digits after an optional plus sign, no blanks.
\* The digit strings of this model have fewer than ten digits, so every
\* number they denote fits into 32 bits, signed or not.
ParseU32(s) ==
    Bind(IF s # <<>> /\ s[1] = "+" THEN Tail(s) ELSE s,
         LAMBDA body : IF AllDigits(body) /\ Len(body) < 10
                       THEN Some(Decimal(body)) ELSE None)

\* str::parse::<i32>(): digits after an optional sign.
ParseI32(s) ==
    Bind(IF s # <<>> /\ s[1] \in {"+", "-"} THEN Tail(s) ELSE s,
         LAMBDA body :
             IF AllDigits(body) /\ Len(body) < 10
             THEN Some(IF s # <<>> /\ s[1] = "-" THEN 0 - Decimal(body)
                       ELSE Decimal(body))
             ELSE None)

IsLeapYear(y) == y % 4 = 0 /\ (y % 100 # 0 \/ y % 400 = 0)

DaysInMonth(y, m) ==
    IF m = 2 THEN (IF IsLeapYear(y) THEN 29 ELSE 28)
    ELSE IF m \in {4, 6, 9, 11} THEN 30
    ELSE 31

\* NaiveDate::from_ymd_opt: a date of the proleptic Gregorian calendar, or
\* none.  Every year of this model lies within the years chrono can hold.
from_ymd_opt(year, month, day) ==
    IF month \in 1..12 /\ day \in 1..DaysInMonth(year, month)
    THEN Some([year |-> year, month |-> month, day |-> day])
    ELSE None

\* NaiveDate::and_hms_opt(hour, minute, 0).
and_hms_opt(date, hour, minute) ==
    IF hour < 24 /\ minute < 60
    THEN Some([date |-> date, hour |-> hour, minute |-> minute])
    ELSE None

\* The date of three fields, in the order day, month, year.
DateOfFields(day_str, month_str, year_str) ==
    Bind(<<ParseU32(day_str), ParseU32(month_str), ParseI32(year_str)>>,
         LAMBDA n : IF n[1] # None /\ n[2] # None /\ n[3] # None
                    THEN from_ymd_opt(n[3][1], n[2][1], n[1][1])
                    ELSE None)

parse_org_date_header_month_first(date_str) ==
    Bind(Split(date_str, ","),
         LAMBDA by_comma :
             IF Len(by_comma) < 2 THEN None
             ELSE Bind(Trim(by_comma[2]),
                       LAMBDA date_part :
                           Bind(Split(date_part, "/"),
                                LAMBDA parts :
                                    IF Len(parts) # 3 THEN None
                                    ELSE DateOfFields(parts[2], parts[1], parts[3]))))
parse_org_date_header(date_str) ==
    Bind(Split(date_str, ","),
         LAMBDA by_comma :
             IF Len(by_comma) < 2 THEN None
             ELSE Bind(Trim(by_comma[2]),
                       LAMBDA date_part :
                           Bind(Split(date_part, "/"),
                                LAMBDA parts :
                                    IF Len(parts) # 3 THEN None
                                    ELSE DateOfFields(parts[1], parts[2], parts[3]))))

parse_entry_header_untrimmed(header) ==
    Bind(SplitN2(header, SP),
         LAMBDA parts :
             [time  |-> Some(parts[1]),
              title |-> IF Len(parts) > 1 /\ parts[2] # <<>>
                        THEN Some(parts[2]) ELSE None])
parse_entry_header(header) ==
    Bind(SplitN2(header, SP),
         LAMBDA parts :
             [time  |-> Some(parts[1]),
              title |-> IF Len(parts) > 1 /\ Trim(parts[2]) # <<>>
                        THEN Some(Trim(parts[2])) ELSE None])

parse_timestamp(date, time_str) ==
    IF time_str = None THEN None
    ELSE Bind(Split(time_str[1], ":"),
              LAMBDA parts :
                  IF Len(parts) < 2 THEN None
                  ELSE Bind(<<ParseU32(parts[1]), ParseU32(parts[2])>>,
                            LAMBDA n :
                                IF n[1] # None /\ n[2] # None
                                THEN and_hms_opt(date, n[1][1], n[2][1])
                                ELSE None))

(***************************************************************************)
(* parse_org_date_header, applied to date strings.                         *)
(***************************************************************************)
MaxDateFields == 4

FieldTexts ==
    {<<"2", "9">>, <<"3", "1">>, <<"0", "2">>,
     <<"2", "0", "2", "4">>, <<"2", "0", "2", "5">>, <<"x">>, <<"+", "7">>}

\* What a date string starts with, before its first field.
DateHeads ==
    {<<>>, <<"S", "a", "t">>, <<"S", "a", "t", ",">>,
     <<"S", "a", "t", ",", SP>>}

\* What follows its last field.
DateTails == {<<>>, <<SP>>, <<",", SP, "x">>}

DateStrings ==
    {head \o Join(fields, <<"/">>) \o tail :
        head \in DateHeads,
        fields \in UNION {[1..n -> FieldTexts] : n \in 1..MaxDateFields},
        tail \in DateTails}

DateHeaderInit ==
    /\ dh_str \in DateStrings
    /\ dh_out = <<>>
    /\ eh_header = <<>>
    /\ eh_out = <<>>
    /\ fm_content = <<>>
    /\ fm_yaml_ok = TRUE
    /\ fm_out = <<>>
    /\ color = TRUE
    /\ base_level = 1
    /\ MarkupStart
    /\ ImportInit
    /\ WrapIdle
    /\ LinksIdle
    /\ JournalIdle
    /\ StatsIdle

ParseFixed ==
    UNCHANGED <<tokVars, renderVars, orgVars, importVars, wrapVars, linkVars,
                journalVars, statsVars>>

ParseDateHeader ==
    /\ dh_out = <<>>
    /\ dh_out' = <<parse_org_date_header(dh_str)>>
    /\ UNCHANGED <<dh_str, eh_header, eh_out, fm_content, fm_yaml_ok, fm_out>>
    /\ ParseFixed

SpecDateHeader == DateHeaderInit /\ [][ParseDateHeader]_vars

\* The date a part of a date header stands for: the part is split at its
\* slashes, and three fields that are numbers give day, month and year.
DateOfPart(part) ==
    LET fields == Split(part, "/")
    IN  IF /\ Len(fields) = 3
           /\ ParseU32(fields[1]) # None
           /\ ParseU32(fields[2]) # None
           /\ ParseI32(fields[3]) # None
           /\ ParseU32(fields[2])[1] \in 1..12
           /\ ParseU32(fields[1])[1] \in
                  1..DaysInMonth(ParseI32(fields[3])[1], ParseU32(fields[2])[1])
        THEN Some([year  |-> ParseI32(fields[3])[1],
                   month |-> ParseU32(fields[2])[1],
                   day   |-> ParseU32(fields[1])[1]])
        ELSE None

FirstComma(s) == FindFrom(s, <<",">>, 1)

\* Everything after the first comma.
AfterFirstComma(s) == SubSeq(s, FirstComma(s) + 1, Len(s))

\* What lies between the first comma and the next one, or the end.
UpToNextComma(s) ==
    LET rest == AfterFirstComma(s)
        k    == FirstComma(rest)
    IN  IF k = 0 THEN rest ELSE SubSeq(rest, 1, k - 1)

\* C22 as stated: the date is read, day first, from everything after the
\* first comma of the date string; there is no date when there is no comma,
\* when that part is not three numeric fields or when they are no date.
C22_DateAfterFirstComma ==
    dh_out # <<>> =>
        dh_out[1] = IF FirstComma(dh_str) = 0 THEN None
                    ELSE DateOfPart(Trim(AfterFirstComma(dh_str)))

\* C22, amended: the date is read, day first, from what lies between the
\* first comma of the date string and its next comma (or its end), blanks
\* around it left out; there is no date when there is no comma, when that
\* part is not three fields that parse as numbers or when they are no
\* date of the calendar.
C22_DateUpToNextComma ==
    dh_out # <<>> =>
        dh_out[1] = IF FirstComma(dh_str) = 0 THEN None
                    ELSE DateOfPart(Trim(UpToNextComma(dh_str)))

\* "Sat, 29/02/2024" was read as the 29th of February 2024.
C22_Witness ==
    /\ dh_str = <<"S", "a", "t", ",", SP, "2", "9", "/", "0", "2", "/",
                  "2", "0", "2", "4">>
    /\ dh_out = <<Some([year |-> 2024, month |-> 2, day |-> 29])>>

(***************************************************************************)
(* parse_entry_header, applied to entry headers.                           *)
(***************************************************************************)
MaxHeaderLen == 5

HeaderChars == {"1", ":", SP, "a"}

EntryHeaders == UNION {[1..n -> HeaderChars] : n \in 0..MaxHeaderLen}

EntryHeaderInit ==
    /\ eh_header \in EntryHeaders
    /\ eh_out = <<>>
    /\ dh_str = <<>>
    /\ dh_out = <<>>
    /\ fm_content = <<>>
    /\ fm_yaml_ok = TRUE
    /\ fm_out = <<>>
    /\ color = TRUE
    /\ base_level = 1
    /\ MarkupStart
    /\ ImportInit
    /\ WrapIdle
    /\ LinksIdle
    /\ JournalIdle
    /\ StatsIdle

ParseEntryHeader ==
    /\ eh_out = <<>>
    /\ eh_out' = <<parse_entry_header(eh_header)>>
    /\ UNCHANGED <<dh_str, dh_out, eh_header, fm_content, fm_yaml_ok, fm_out>>
    /\ ParseFixed

SpecEntryHeader == EntryHeaderInit /\ [][ParseEntryHeader]_vars

FirstSpace(s) == FindFrom(s, <<SP>>, 1)

\* C23: the header is split at its first space.  The time is the text
\* before it, the whole header when there is no space; the title is the
\* rest without the blanks around it, and absent when there is no rest or
\* only blanks.
C23_SplitAtFirstSpace ==
    eh_out # <<>> =>
        LET k    == FirstSpace(eh_header)
            rest == Trim(SubSeq(eh_header, k + 1, Len(eh_header)))
        IN  IF k = 0
            THEN eh_out[1] = [time |-> Some(eh_header), title |-> None]
            ELSE /\ eh_out[1].time = Some(SubSeq(eh_header, 1, k - 1))
                 /\ eh_out[1].title = IF rest = <<>> THEN None ELSE Some(rest)

\* "1:  a" gave the time "1:" and the title "a", the second blank left
\* out.
C23_Witness ==
    /\ eh_header = <<"1", ":", SP, SP, "a">>
    /\ eh_out = <<[time |-> Some(<<"1", ":">>), title |-> Some(<<"a">>)]>>

(***************************************************************************)
(* parse_frontmatter (cli/frontmatter.rs), applied to edited files.        *)
(***************************************************************************)
FRONTMATTER_DELIMITER == <<"-", "-", "-">>

\* The index of the first line after the first that is a delimiter, or 0.
ClosingDelimiter(ls) ==
    LET hits == {k \in 2..Len(ls) : Trim(ls[k]) = FRONTMATTER_DELIMITER}
    IN  IF hits = {} THEN 0 ELSE CHOOSE k \in hits : \A j \in hits : k <= j

Err(message) == [ok |-> FALSE, error |-> message]

\* yaml_ok: serde_yaml reads an EntryMetadata from the metadata lines.  The
\* metadata is carried as the text it is read from.
parse_frontmatter_from_delimiter(content, yaml_ok) ==
    LET ls == Lines(content)
    IN  IF ls = <<>> \/ Trim(ls[1]) # FRONTMATTER_DELIMITER
        THEN Err("must start with delimiter")
        ELSE LET closing == ClosingDelimiter(ls)
             IN  IF closing = 0 THEN Err("closing delimiter not found")
                 ELSE IF ~yaml_ok THEN Err("failed to parse frontmatter")
                 ELSE [ok       |-> TRUE,
                       metadata |-> Join(SubSeq(ls, 2, closing - 1), <<NL>>),
                       content  |-> Join(SubSeq(ls, closing, Len(ls)),
                                         <<NL>>)]
parse_frontmatter(content, yaml_ok) ==
    LET ls == Lines(content)
    IN  IF ls = <<>> \/ Trim(ls[1]) # FRONTMATTER_DELIMITER
        THEN Err("must start with delimiter")
        ELSE LET closing == ClosingDelimiter(ls)
             IN  IF closing = 0 THEN Err("closing delimiter not found")
                 ELSE IF ~yaml_ok THEN Err("failed to parse frontmatter")
                 ELSE [ok       |-> TRUE,
                       metadata |-> Join(SubSeq(ls, 2, closing - 1), <<NL>>),
                       content  |-> IF closing + 1 <= Len(ls)
                                    THEN Join(SubSeq(ls, closing + 1, Len(ls)),
                                              <<NL>>)
                                    ELSE <<>>]

MaxFileLines == 4

FileLines ==
    {FRONTMATTER_DELIMITER, <<SP>> \o FRONTMATTER_DELIMITER \o <<SP>>,
     <<"j", ":", SP, "x">>, <<"a">>, <<>>}

\* Files of up to MaxFileLines lines, the last line with or without its
\* newline.
FileContents ==
    LET bodies == {Join(ls, <<NL>>) :
                      ls \in UNION {[1..n -> FileLines] : n \in 0..MaxFileLines}}
    IN  bodies \cup {b \o <<NL>> : b \in bodies}

FrontmatterInit ==
    /\ fm_content \in FileContents
    /\ fm_yaml_ok \in BOOLEAN
    /\ fm_out = <<>>
    /\ dh_str = <<>>
    /\ dh_out = <<>>
    /\ eh_header = <<>>
    /\ eh_out = <<>>
    /\ color = TRUE
    /\ base_level = 1
    /\ MarkupStart
    /\ ImportInit
    /\ WrapIdle
    /\ LinksIdle
    /\ JournalIdle
    /\ StatsIdle

ParseFrontmatter ==
    /\ fm_out = <<>>
    /\ fm_out' = <<parse_frontmatter(fm_content, fm_yaml_ok)>>
    /\ UNCHANGED <<dh_str, dh_out, eh_header, eh_out, fm_content, fm_yaml_ok>>
    /\ ParseFixed

SpecFrontmatter == FrontmatterInit /\ [][ParseFrontmatter]_vars

\* The lines of a text: its pieces between newlines, a last empty piece
\* left out.
TextLines(s) ==
    LET pieces == Split(s, NL)
    IN  IF pieces[Len(pieces)] = <<>>
        THEN SubSeq(pieces, 1, Len(pieces) - 1) ELSE pieces

IsDelimiterLine(l) == Trim(l) = FRONTMATTER_DELIMITER

\* C24: parse_frontmatter returns an error, and neither metadata nor
\* content, when the first line is not the delimiter or when no later line
\* is a closing delimiter.  When both are there, the metadata is read from
\* the lines strictly between them, and the returned content is exactly
\* the lines after the closing delimiter; the call then fails only when
\* the metadata lines are not accepted as metadata.
C24_FrontmatterSplit ==
    fm_out # <<>> =>
        LET ls      == TextLines(fm_content)
            r       == fm_out[1]
            opened  == ls # <<>> /\ IsDelimiterLine(ls[1])
            closers == {k \in 2..Len(ls) : IsDelimiterLine(ls[k])}
        IN  /\ (~opened \/ closers = {}) =>
                   ~r.ok /\ DOMAIN r = {"ok", "error"}
            /\ (opened /\ closers # {}) =>
                   /\ r.ok = fm_yaml_ok
                   /\ r.ok =>
                         \E c \in closers :
                            /\ \A k \in closers : c <= k
                            /\ r.metadata =
                                   Join([k \in 1..(c - 2) |-> ls[k + 1]],
                                        <<NL>>)
                            /\ r.content =
                                   Join([k \in 1..(Len(ls) - c) |-> ls[c + k]],
                                        <<NL>>)

\* A file of the delimiter, one metadata line, an indented closing
\* delimiter and one content line was split into metadata and content.
C24_Witness ==
    /\ fm_out # <<>>
    /\ fm_content = FRONTMATTER_DELIMITER \o <<NL, "j", ":", SP, "x", NL, SP>>
                        \o FRONTMATTER_DELIMITER \o <<SP, NL, "a", NL>>
    /\ fm_out[1].ok
    /\ fm_out[1].metadata = <<"j", ":", SP, "x">>
    /\ fm_out[1].content = <<"a">>

(***************************************************************************)
(* import_from_org and import_from_dayone: the statistics of an import.    *)
(***************************************************************************)
MaxImportEntries == 6

StatsInit ==
    /\ st_pc \in {"org", "dayone"}
    /\ st_parsed = 0
    /\ st_handled = 0
    /\ stats = [total |-> 0, imported |-> 0, skipped |-> 0, errors |-> <<>>]
    /\ color = TRUE
    /\ base_level = 1
    /\ MarkupStart
    /\ ImportInit
    /\ WrapIdle
    /\ LinksIdle
    /\ ParseIdle
    /\ JournalIdle

StatsFixed ==
    UNCHANGED <<tokVars, renderVars, orgVars, importVars, wrapVars, linkVars,
                parseVars, journalVars>>

\* fs::read_to_string fails: the `?` returns the error, no statistics.
ReadFails ==
    /\ st_pc \in {"org", "dayone"}
    /\ st_pc' = "err"
    /\ UNCHANGED <<st_parsed, st_handled, stats>>
    /\ StatsFixed

\* parse_dayone_json fails on the JSON text or on a creation date; the
\* parser of the outline format has no failing path.
ParseFails ==
    /\ st_pc = "dayone"
    /\ st_pc' = "err"
    /\ UNCHANGED <<st_parsed, st_handled, stats>>
    /\ StatsFixed

\* The parser returned its entries: stats is built with their number.
Parsed ==
    \E n \in 0..MaxImportEntries :
        /\ st_pc \in {"org", "dayone"}
        /\ st_pc' = "loop"
        /\ st_parsed' = n
        /\ stats' = [total |-> n, imported |-> 0, skipped |-> 0,
                     errors |-> <<>>]
        /\ UNCHANGED st_handled
        /\ StatsFixed

\* create_entry_with_timestamp returned Ok for the next entry.
CreateOk ==
    /\ st_pc = "loop"
    /\ st_handled < st_parsed
    /\ st_handled' = st_handled + 1
    /\ stats' = [stats EXCEPT !.imported = @ + 1]
    /\ UNCHANGED <<st_pc, st_parsed>>
    /\ StatsFixed

CreateFailsAndStops ==
    /\ st_pc = "loop"
    /\ st_handled < st_parsed
    /\ st_handled' = st_handled + 1
    /\ stats' = [stats EXCEPT !.errors = Append(@, st_handled + 1),
                              !.skipped = @ + 1]
    /\ st_pc' = "ok"
    /\ UNCHANGED st_parsed
    /\ StatsFixed
\* It returned Err: the message is kept, the entry counted as skipped.
CreateFails ==
    /\ st_pc = "loop"
    /\ st_handled < st_parsed
    /\ st_handled' = st_handled + 1
    /\ stats' = [stats EXCEPT !.errors = Append(@, st_handled + 1),
                              !.skipped = @ + 1]
    /\ UNCHANGED <<st_pc, st_parsed>>
    /\ StatsFixed

\* The for loop is over: Ok(stats).
ReturnStats ==
    /\ st_pc = "loop"
    /\ st_handled = st_parsed
    /\ st_pc' = "ok"
    /\ UNCHANGED <<st_parsed, st_handled, stats>>
    /\ StatsFixed

StatsNext ==
    \/ ReadFails
    \/ ParseFails
    \/ Parsed
    \/ CreateOk
    \/ CreateFails
    \/ ReturnStats

SpecStats == StatsInit /\ [][StatsNext]_vars

\* C30: while the entries are created and after the import returned,
\* imported + skipped is at most total and there is one error message per
\* skipped entry; at the return total = imported + skipped, every parsed
\* entry having been tried, whatever the mix of successes and failures.
C30_StatsAddUp ==
    /\ st_pc \in {"loop", "ok"} =>
          /\ stats.total = st_parsed
          /\ stats.imported + stats.skipped <= stats.total
          /\ Len(stats.errors) = stats.skipped
    /\ st_pc = "ok" =>
          /\ stats.total = stats.imported + stats.skipped
          /\ st_handled = st_parsed

\* An import returned after a failing creation that was followed by a
\* successful one.
C30_Witness ==
    /\ st_pc = "ok"
    /\ stats.skipped > 0
    /\ stats.imported > 0
    /\ stats.errors[1] = 1

(***************************************************************************)
(* convert_org_to_markdown as a function of its argument, for the callers  *)
(* that use its value: the loop of the actions above, line by line.        *)
(***************************************************************************)
\* What one line appends to the result, given the two flags before it.
ChunkOf(line, src, quote) ==
    IF IsBeginSrc(line)
    THEN Fence \o Trim(SubSeq(Trim(line), Len(BEGIN_SRC) + 1, Len(Trim(line))))
               \o <<NL>>
    ELSE IF IsEndSrc(line) THEN Fence \o <<NL>>
    ELSE IF IsBeginQuote(line) THEN QuotePrefix
    ELSE IF IsEndQuote(line) THEN <<NL>>
    ELSE IF src THEN line \o <<NL>>
    ELSE LET converted == IF IsHeading(Trim(line))
                          THEN ConvertHeading(Trim(line))
                          ELSE ConvertFormatting(line)
         IN  (IF quote /\ Trim(converted) # <<>> THEN QuotePrefix ELSE <<>>)
                 \o converted \o <<NL>>

\* The two flags after a line.
FlagsAfter(line, src, quote) ==
    IF IsBeginSrc(line) THEN <<TRUE, quote>>
    ELSE IF IsEndSrc(line) THEN <<FALSE, quote>>
    ELSE IF IsBeginQuote(line) THEN <<src, TRUE>>
    ELSE IF IsEndQuote(line) THEN <<src, FALSE>>
    ELSE <<src, quote>>

RECURSIVE ConvertFrom(_, _, _, _)
ConvertFrom(ls, k, src, quote) ==
    IF k > Len(ls) THEN <<>>
    ELSE Bind(<<ChunkOf(ls[k], src, quote), FlagsAfter(ls[k], src, quote)>>,
              LAMBDA r : r[1] \o ConvertFrom(ls, k + 1, r[2][1], r[2][2]))

convert_org_to_markdown(org) ==
    Bind(Lines(org),
         LAMBDA ls : Bind(ConvertFrom(ls, 1, FALSE, FALSE),
                          LAMBDA md_text : Trim(md_text)))

(***************************************************************************)
(* parse_org_journal: the loop over the lines of an outline journal.       *)
(***************************************************************************)
MaxJournalLines == 4

J_Date1 ==
    <<"*", SP, "S", "a", "t", ",", SP, "0", "7", "/", "0", "2", "/",
      "2", "0", "2", "4">>
J_Date2 ==
    <<"*", SP, "S", "u", "n", ",", SP, "0", "8", "/", "0", "2", "/",
      "2", "0", "2", "4">>
J_BadDate == <<"*", SP, "x">>
J_End == <<":", "E", "N", "D", ":">>
J_Entry == <<"*", "*", SP, "1", "0", ":", "0", "0", SP, "a">>
J_Heading == <<"*", "*", SP, "T">>
J_Text == <<"b">>

\* The loop tells date headers, ":END:", entry headers and lines that
\* start with two stars from all other lines; J_Text stands for those, the
\* other lines of a property block among them.
JournalLines ==
    {J_Date1, J_Date2, J_BadDate, J_End, J_Entry, J_Heading, J_Text}

Date1 == [year |-> 2024, month |-> 2, day |-> 7]

\* Before the call: nothing is read yet.
JournalInit ==
    /\ JournalIdle
    /\ color = TRUE
    /\ base_level = 1
    /\ MarkupStart
    /\ ImportInit
    /\ WrapIdle
    /\ LinksIdle
    /\ ParseIdle
    /\ StatsIdle

OthersIdle ==
    UNCHANGED <<tokVars, renderVars, orgVars, importVars, wrapVars, linkVars,
                parseVars, statsVars>>

JournalFixed == OthersIdle /\ UNCHANGED <<jn_lines, filter_date, exported>>

\* parse_org_journal is called with a journal and a date filter: the
\* lines are collected and the locals set up.
JournalCall ==
    /\ jn_pc = "idle"
    /\ jn_pc' = "loop"
    /\ jn_lines' \in UNION {[1..n -> JournalLines] : n \in 0..MaxJournalLines}
    /\ filter_date' \in {None, Some(Date1)}
    /\ jn_i' = 0
    /\ current_date' = None
    /\ entries' = <<>>
    /\ entry_lines' = <<>>
    /\ UNCHANGED exported
    /\ OthersIdle

DateMark  == <<"*", SP>>
EntryMark == <<"*", "*", SP>>

IsDateHeader(line) == StartsWith(line, DateMark) /\ ~StartsWith(line, EntryMark)
IsEntryHeader(line) == StartsWith(line, EntryMark)

\* str::strip_prefix(mark).unwrap().trim()
StripMark(line, mark) == Trim(SubSeq(line, Len(mark) + 1, Len(line)))

\* lines[i].trim(), i counted from 0 as in the code.
LineAt(k) == Trim(jn_lines[k + 1])

InLoop == jn_pc = "loop" /\ jn_i < Len(jn_lines)

\* The inner loop after a date header: the index after the next ":END:"
\* line at or after k, the number of lines when there is none.
RECURSIVE AfterProperties(_, _)
AfterProperties(ls, k) ==
    IF k >= Len(ls) THEN k
    ELSE IF Trim(ls[k + 1]) = J_End THEN k + 1
    ELSE AfterProperties(ls, k + 1)

EndsContent(line) ==
    \/ StartsWith(Trim(line), <<"*", "*">>)
    \/ StartsWith(Trim(line), DateMark) /\ ~StartsWith(Trim(line), EntryMark)

\* The inner loop after an entry header: the index of the first line at
\* or after k that ends the content, the number of lines when none does.
RECURSIVE ContentEnd(_, _)
ContentEnd(ls, k) ==
    IF k >= Len(ls) THEN k
    ELSE IF EndsContent(ls[k + 1]) THEN k
    ELSE ContentEnd(ls, k + 1)

\* The entry header at index i passes the date filter.
PassesFilter == filter_date = None \/ current_date = filter_date

\* parse_entry_header of the header at index i, and its timestamp.
HeaderAt(k) == parse_entry_header(StripMark(LineAt(k), EntryMark))

TimestampOf(header) == parse_timestamp(current_date[1], header.time)

DateHeaderKeepsIndex ==
    /\ InLoop
    /\ IsDateHeader(LineAt(jn_i))
    /\ \E date_str \in {StripMark(LineAt(jn_i), DateMark)} :
            current_date' = parse_org_date_header(date_str)
    /\ UNCHANGED <<jn_pc, jn_i, entries, entry_lines>>
    /\ JournalFixed
DateHeader ==
    /\ InLoop
    /\ IsDateHeader(LineAt(jn_i))
    /\ \E date_str \in {StripMark(LineAt(jn_i), DateMark)} :
            current_date' = parse_org_date_header(date_str)
    /\ jn_i' = AfterProperties(jn_lines, jn_i + 1)
    /\ UNCHANGED <<jn_pc, entries, entry_lines>>
    /\ JournalFixed

EntryWithoutDate ==
    /\ InLoop
    /\ IsEntryHeader(LineAt(jn_i))
    /\ current_date = None
    /\ jn_i' = jn_i + 1
    /\ UNCHANGED <<jn_pc, current_date, entries, entry_lines>>
    /\ JournalFixed

FilteredEntry ==
    /\ InLoop
    /\ IsEntryHeader(LineAt(jn_i))
    /\ current_date # None
    /\ ~PassesFilter
    /\ jn_i' = jn_i + 1
    /\ UNCHANGED <<jn_pc, current_date, entries, entry_lines>>
    /\ JournalFixed

EntryWithTime ==
    /\ InLoop
    /\ IsEntryHeader(LineAt(jn_i))
    /\ current_date # None
    /\ PassesFilter
    /\ \E header \in {HeaderAt(jn_i)} :
       \E timestamp \in {TimestampOf(header)} :
       \E last \in {ContentEnd(jn_lines, jn_i + 1)} :
       \E content \in {Trim(Join(SubSeq(jn_lines, jn_i + 2, last), <<NL>>))} :
       \E markdown_content \in {convert_org_to_markdown(content)} :
           /\ timestamp # None
           /\ jn_i' = last
           /\ entries' = Append(entries,
                                [timestamp |-> timestamp[1],
                                 title     |-> header.title,
                                 content   |-> markdown_content])
    /\ entry_lines' = Append(entry_lines, jn_i)
    /\ UNCHANGED <<jn_pc, current_date>>
    /\ JournalFixed

EntryWithoutTime ==
    /\ InLoop
    /\ IsEntryHeader(LineAt(jn_i))
    /\ current_date # None
    /\ PassesFilter
    /\ \E header \in {HeaderAt(jn_i)} : TimestampOf(header) = None
    /\ jn_i' = jn_i + 1
    /\ UNCHANGED <<jn_pc, current_date, entries, entry_lines>>
    /\ JournalFixed

OtherLine ==
    /\ InLoop
    /\ ~IsDateHeader(LineAt(jn_i))
    /\ ~IsEntryHeader(LineAt(jn_i))
    /\ jn_i' = jn_i + 1
    /\ UNCHANGED <<jn_pc, current_date, entries, entry_lines>>
    /\ JournalFixed

\* i < lines.len() fails: Ok(entries).
JournalReturn ==
    /\ jn_pc = "loop"
    /\ jn_i >= Len(jn_lines)
    /\ jn_pc' = "returned"
    /\ UNCHANGED <<jn_i, current_date, entries, entry_lines>>
    /\ JournalFixed

JournalNext ==
    \/ JournalCall
    \/ DateHeader
    \/ EntryWithoutDate
    \/ FilteredEntry
    \/ EntryWithTime
    \/ EntryWithoutTime
    \/ OtherLine
    \/ JournalReturn

\* The loop is sequential code: a branch that can be taken is taken.
SpecJournal == JournalInit /\ [][JournalNext]_vars /\ WF_vars(JournalNext)

\* C21: parse_org_journal ends after one pass over the lines.  Every
\* iteration of its loop moves the line index forward, whichever branch it
\* takes, the index never passes the number of lines, and the function
\* returns.
C21_JournalLoopTerminates ==
    /\ <>(jn_pc = "returned")
    /\ [][jn_pc = "loop" /\ jn_pc' = "loop" => jn_i' > jn_i]_vars
    /\ [](jn_i <= Len(jn_lines))

\* The function returned after a date header, the ":END:" line of its
\* property block, an entry with a time and a line of content.
C21_Witness ==
    /\ jn_pc = "returned"
    /\ jn_lines = <<J_Date1, J_End, J_Entry, J_Text>>
    /\ Len(entries) = 1

(***************************************************************************)
(* What parse_org_journal returns, read off the lines of the journal.      *)
(***************************************************************************)
\* Line k (counted from 1) is a date header, an entry header with a time.
DateHeaderLine(k) == IsDateHeader(Trim(jn_lines[k]))

TimedEntryLine(k) ==
    /\ IsEntryHeader(Trim(jn_lines[k]))
    /\ parse_timestamp(
           Date1,
           parse_entry_header(StripMark(Trim(jn_lines[k]), EntryMark)).time)
         # None

\* The date of the nearest date header before line k, if there is such a
\* header and its date can be read.
NearestDate(k) ==
    LET headers == {j \in 1..(k - 1) : DateHeaderLine(j)}
    IN  IF headers = {} THEN None
        ELSE LET j == CHOOSE h \in headers : \A g \in headers : g <= h
             IN  parse_org_date_header(StripMark(Trim(jn_lines[j]), DateMark))

\* C28: every entry header with a time that follows a date header whose
\* date can be read (and is the filter date, if one is given) yields an
\* entry, whether or not a property block follows the date header.
C28_EveryHeaderYieldsEntry ==
    jn_pc = "returned" =>
        \A k \in 1..Len(jn_lines) :
            (/\ TimedEntryLine(k)
             /\ NearestDate(k) # None
             /\ filter_date \in {None, NearestDate(k)})
                => \E e \in 1..Len(entry_lines) : entry_lines[e] = k - 1

\* C29: every returned entry has the date of the nearest date header
\* before its own header, which could be read; with a filter date every
\* returned entry has that date.
C29_EntriesCarryNearestDate ==
    jn_pc = "returned" =>
        \A e \in 1..Len(entries) :
            /\ NearestDate(entry_lines[e] + 1) = Some(entries[e].timestamp.date)
            /\ filter_date \in {None, Some(entries[e].timestamp.date)}

(***************************************************************************)
(* export_to_org (export/mod.rs) followed by parse_org_journal: a journal  *)
(* is written in the outline format and read back.                         *)
(***************************************************************************)
MaxBodyEvents == 4

\* A number in decimal, with leading zeros up to the given width
\* (%d, %m, %H, %M with width 2, %Y with width 4).
RECURSIVE Padded(_, _)
Padded(n, width) ==
    IF width = 0 THEN <<>>
    ELSE Padded(n \div 10, width - 1) \o <<DigitChars[(n % 10) + 1]>>

WeekdayNames ==
    << <<"S", "a", "t", "u", "r", "d", "a", "y">>,
       <<"S", "u", "n", "d", "a", "y">>,
       <<"M", "o", "n", "d", "a", "y">>,
       <<"T", "u", "e", "s", "d", "a", "y">>,
       <<"W", "e", "d", "n", "e", "s", "d", "a", "y">>,
       <<"T", "h", "u", "r", "s", "d", "a", "y">>,
       <<"F", "r", "i", "d", "a", "y">> >>

\* %A: the name of the day of the week (Zeller's congruence, 0 = Saturday).
Weekday(date) ==
    LET m == IF date.month < 3 THEN date.month + 12 ELSE date.month
        y == IF date.month < 3 THEN date.year - 1 ELSE date.year
        h == (date.day + ((13 * (m + 1)) \div 5) + (y % 100)
                  + ((y % 100) \div 4) + ((y \div 100) \div 4)
                  + 5 * (y \div 100)) % 7
    IN  WeekdayNames[h + 1]

\* date.format("%A, %d/%m/%Y")
FormattedDate(date) ==
    Weekday(date) \o <<",", SP>> \o Padded(date.day, 2) \o <<"/">>
        \o Padded(date.month, 2) \o <<"/">> \o Padded(date.year, 4)

\* timestamp.format("%Y%m%d") and timestamp.format("%H:%M")
CreatedDate(date) ==
    Padded(date.year, 4) \o Padded(date.month, 2) \o Padded(date.day, 2)
FormattedTime(entry) ==
    Padded(entry.hour, 2) \o <<":">> \o Padded(entry.minute, 2)

\* What export_to_org pushes for one date: the heading and the property
\* block.
DateBlock(date) ==
    DateMark \o FormattedDate(date) \o <<NL>>
        \o <<":", "P", "R", "O", "P", "E", "R", "T", "I", "E", "S", ":", NL>>
        \o <<":", "C", "R", "E", "A", "T", "E", "D", ":", SP, SP>>
        \o CreatedDate(date) \o <<NL>>
        \o J_End \o <<NL>>

\* What it pushes for one entry: the header with the time, the title if
\* there is one, and the content in the outline markup.
EntryBlock(entry) ==
    EntryMark \o FormattedTime(entry) \o <<SP>>
        \o (IF entry.title = None THEN <<>> ELSE entry.title[1]) \o <<NL>>
        \o entry.body

\* The document for entries in the order of their timestamps, grouped by
\* date.
RECURSIVE OrgDocument(_, _)
OrgDocument(es, k) ==
    IF k > Len(es) THEN <<>>
    ELSE (IF k = 1 \/ es[k - 1].date # es[k].date
          THEN DateBlock(es[k].date) ELSE <<>>)
             \o EntryBlock(es[k]) \o OrgDocument(es, k + 1)

Date2 == [year |-> 2024, month |-> 2, day |-> 8]

\* The journals exported: one entry, or two on the same or on two days,
\* each with the content the event loop has just converted at base level 1.
ExportedJournals(body) ==
    LET first == {[date |-> Date1, hour |-> 10, minute |-> 0,
                   title |-> t, body |-> body] : t \in {None, Some(<<"a">>)}}
        second == {[date |-> d, hour |-> 11, minute |-> 30,
                    title |-> None, body |-> body] : d \in {Date1, Date2}}
    IN  {<<e>> : e \in first} \cup {<<e, f>> : e \in first, f \in second}

RoundTripInit ==
    /\ color = TRUE
    /\ base_level = 1
    /\ MarkupStart
    /\ ImportInit
    /\ WrapIdle
    /\ LinksIdle
    /\ RestIdle

\* The content of the entries is converted, event by event.
ConvertBody == MarkupNext /\ Len(events') <= MaxBodyEvents

\* export_to_org writes the document; the file is read and its lines
\* are what parse_org_journal will see.
ExportToOrg ==
    /\ done
    /\ exported = <<>>
    /\ exported' \in ExportedJournals(org_result)
    /\ jn_lines' = Lines(OrgDocument(exported', 1))
    /\ UNCHANGED <<jn_pc, filter_date, jn_i, current_date, entries,
                   entry_lines>>
    /\ OthersIdle

\* parse_org_journal is called on the exported document.
ImportExported ==
    /\ exported # <<>>
    /\ jn_pc = "idle"
    /\ jn_pc' = "loop"
    /\ filter_date' \in {None, Some(Date2)}
    /\ jn_i' = 0
    /\ current_date' = None
    /\ entries' = <<>>
    /\ entry_lines' = <<>>
    /\ UNCHANGED <<jn_lines, exported>>
    /\ OthersIdle

\* The branch of an entry header without a current date is left out: the
\* document starts with a date header that can be read.
RoundTripNext ==
    \/ ConvertBody
    \/ ExportToOrg
    \/ ImportExported
    \/ DateHeader
    \/ FilteredEntry
    \/ EntryWithTime
    \/ EntryWithoutTime
    \/ OtherLine
    \/ JournalReturn

SpecRoundTrip == RoundTripInit /\ [][RoundTripNext]_vars

\* The exported entries the date filter lets through.
Kept == SelectSeq(exported, LAMBDA e : filter_date \in {None, Some(e.date)})

\* C27: reading back an exported journal yields exactly one entry per
\* exported entry (per entry of the filter date, when one is given), with
\* the same date, hour, minute and title, whatever the content is made of;
\* no line of the content ends the content early or is taken for an entry
\* header, so the content read back is the conversion of the whole content
\* that was written.
C27_RoundTrip ==
    jn_pc = "returned" /\ exported # <<>> =>
        /\ Len(entries) = Len(Kept)
        /\ \A k \in 1..Len(entries) :
              (k <= Len(Kept)) =>
                  /\ entries[k].timestamp =
                         [date |-> Kept[k].date, hour |-> Kept[k].hour,
                          minute |-> Kept[k].minute]
                  /\ entries[k].title = Kept[k].title
                  /\ entries[k].content =
                         convert_org_to_markdown(Trim(Kept[k].body))

====
